---- MODULE Spec2Model ----
(***************************************************************************)
(* A model of the pecan agent core (pecan-core/src/lib.rs): the turn loop  *)
(* chat / chat_internal, the approval operations approve_tool_call and     *)
(* reject_tool_call, and the shell security policy, run by several         *)
(* concurrent callers that share one Agent (specification Spec); and of    *)
(* the memory store (pecan-core/src/memory.rs): its operation log, its     *)
(* SQLite index, and the process that opens, uses and leaves them          *)
(* (specification MemSpec).  CheckSpec applies check_shell_security to the *)
(* policies a configuration can state; TaskSpec is the task stack with the *)
(* autonomous loop and the TUI's /task, /pause and /resume (FairTaskSpec   *)
(* adds the fairness of the runtime); LockSpec follows every lock().await  *)
(* of the operations, one mutex and one guard scope at a time.  TurnSpec   *)
(* is Spec without approval and counts the requests and batches of a turn; *)
(* RaceSpec lets every caller approve and reject; PoolSpec runs several    *)
(* autonomous loops on the one task stack.                                 *)
(*                                                                         *)
(* Option<T> is modelled as a sequence of length at most one: None is <<>> *)
(* and Some(x) is <<x>>.  Strings that the code searches (shell commands   *)
(* and policy entries) are looked up as sequences of characters.           *)
(***************************************************************************)
EXTENDS Integers, Sequences, FiniteSets, TLC

\* ------------------------------------------------------------------ bounds
MaxChats == 2       \* chat() calls in one behaviour
MaxBackend == 2     \* chat_completion requests in one behaviour
MaxIds == 2         \* tool calls the backend emits in one behaviour
MaxBatch == 2       \* tool calls in one Assistant batch
MaxAdds == 2        \* add_memory calls in one behaviour
MaxMemOps == 6      \* MemoryManager::new, add, forget and compact calls in one behaviour

\* The concurrent callers sharing the Agent: the front end's input loop, which
\* calls chat, approve_tool_call and reject_tool_call, and the autonomous
\* loop's task, which calls chat.
Callers == {"user", "auto"}
Approvers == {"user"}
NoCaller == "free"

\* ----------------------------------------------------------------- Option
None == <<>>
Some(x) == <<x>>
IsSome(o) == Len(o) > 0
IsNone(o) == Len(o) = 0
Unwrap(o) == o[1]

\* ---------------------------------------------------------------- strings
\* The characters of the strings the security policy looks at.
Chars(s) ==
  CASE s = "ls" -> <<"l", "s">>
    [] s = "cat" -> <<"c", "a", "t">>
    [] s = "grep" -> <<"g", "r", "e", "p">>
    [] s = "pwd" -> <<"p", "w", "d">>
    [] s = "rm" -> <<"r", "m">>
    [] s = "mv" -> <<"m", "v">>
    [] s = "rm -rf /" -> <<"r", "m", " ", "-", "r", "f", " ", "/">>
    [] s = "foo" -> <<"f", "o", "o">>
    [] s = "ls; rm x" -> <<"l", "s", ";", " ", "r", "m", " ", "x">>
    [] OTHER -> <<>>

\* str::contains: pat occurs in s as a contiguous substring.
Contains(s, pat) ==
  LET cs == Chars(s)
      cp == Chars(pat)
  IN  \E i \in 1..(Len(cs) - Len(cp) + 1) : SubSeq(cs, i, i + Len(cp) - 1) = cp

\* ----------------------------------------------------------------- config
\* ToolConfig::default()
DefaultToolConfig ==
  [require_approval |-> TRUE,
   allowed_shell_commands |-> <<"ls", "cat", "grep", "pwd">>,
   blocked_shell_commands |-> <<"rm", "mv">>]

\* The configurations a config.yaml can give the agent: the default one,
\* approval switched off, a narrower allow-list.
Configs ==
  {[DefaultToolConfig EXCEPT !.require_approval = a, !.allowed_shell_commands = l] :
     a \in BOOLEAN, l \in {DefaultToolConfig.allowed_shell_commands, <<"cat">>}}

\* ------------------------------------------------------------------- JSON
\* A tool call's arguments are a string.  <<"json", k, v>> is the text of the
\* object {k: v}, <<"json">> the text of {}, anything else is not JSON.
\* serde_json::from_str gives Some(value), or None on a parse error.
from_str(s) == IF Len(s) >= 1 /\ s[1] = "json" THEN Some(Tail(s)) ELSE None

\* arguments[key].as_str()
as_str(value, key) ==
  IF Len(value) = 2 /\ value[1] = key THEN Some(value[2]) ELSE None

\* --------------------------------------------------------------- messages
Message(role, content, tool_calls, tool_call_id) ==
  [role |-> role, content |-> content, tool_calls |-> tool_calls,
   tool_call_id |-> tool_call_id]

UserMessage(text) == Message("User", Some(<<"text", text>>), None, None)
SystemMessage == Message("System", Some(<<"text", "Relevant past interactions">>), None, None)
AssistantMessage(content, tool_calls) == Message("Assistant", content, tool_calls, None)
\* A Tool message that does not name its call.
ToolMessage_NoId(id, content) == Message("Tool", Some(content), None, None)
ToolMessage(id, content) == Message("Tool", Some(content), None, Some(id))

\* ------------------------------------------------------------------ tools
\* Agent::new registers these six tools.
Registered ==
  {"read_file", "write_file", "list_dir", "spawn_subagent", "push_task", "shell"}

\* The (tool name, arguments) pairs the backend asks for.
CallKinds ==
  {<<"shell", <<"json", "command", "ls">>>>,
   <<"shell", <<"json", "command", "rm -rf /">>>>,
   <<"read_file", <<"garbage">>>>,
   <<"nope", <<"json", "path", "f">>>>}

ToolCall(id, kind) == [id |-> id, name |-> kind[1], arguments |-> kind[2]]

\* result.to_string() of a tool that returned Ok
ResultContent(name, value) == <<"result", name>> \o value
\* An error content that does not say which tool is missing.
NotFoundContent_NoName(name) == <<"error", "Tool not found">>

\* json!({ "error": format!("Tool {} not found", name) })
NotFoundContent(name) == <<"error", "Tool not found", name>>
\* json!({ "error": e.to_string() }) for a check_shell_security error
SecurityContent(err) == <<"error">> \o err
\* A rejection message that leaves the reason out.
RejectContent_NoReason(reason) == <<"error", "User rejected tool execution">>

\* json!({ "error": "User rejected tool execution", "reason": reason })
RejectContent(reason) == <<"error", "User rejected tool execution", "reason", reason>>

\* -------------------------------------------------------- shell security
\* check_shell_security without the allow-list test.
check_shell_security_NoAllowList(cfg, arguments) ==
  LET command == as_str(arguments, "command")
      blocked == cfg.blocked_shell_commands
  IN  IF IsNone(command) THEN <<"Missing command">>
      ELSE IF \E i \in 1..Len(blocked) : Contains(Unwrap(command), blocked[i])
        THEN <<"explicitly blocked in configuration", Unwrap(command)>>
      ELSE <<>>

\* check_shell_security that looks at the allow-list first and accepts what
\* matches it.
check_shell_security_AllowFirst(cfg, arguments) ==
  LET command == as_str(arguments, "command")
      blocked == cfg.blocked_shell_commands
      allowed == cfg.allowed_shell_commands
  IN  IF IsNone(command) THEN <<"Missing command">>
      ELSE IF \E i \in 1..Len(allowed) : Contains(Unwrap(command), allowed[i])
        THEN <<>>
      ELSE IF \E i \in 1..Len(blocked) : Contains(Unwrap(command), blocked[i])
        THEN <<"explicitly blocked in configuration", Unwrap(command)>>
      ELSE IF Len(allowed) # 0
        THEN <<"not in the allowed list", Unwrap(command)>>
      ELSE <<>>

\* Agent::check_shell_security: <<>> is Ok(()), anything else the error.
check_shell_security(cfg, arguments) ==
  LET command == as_str(arguments, "command")
      blocked == cfg.blocked_shell_commands
      allowed == cfg.allowed_shell_commands
  IN  IF IsNone(command) THEN <<"Missing command">>
      ELSE IF \E i \in 1..Len(blocked) : Contains(Unwrap(command), blocked[i])
        THEN <<"explicitly blocked in configuration", Unwrap(command)>>
      ELSE IF Len(allowed) # 0
              /\ ~ \E i \in 1..Len(allowed) : Contains(Unwrap(command), allowed[i])
        THEN <<"not in the allowed list", Unwrap(command)>>
      ELSE <<>>

\* ----------------------------------------------------------- memory store
\* The store (pecan-core/src/memory.rs) keeps two files: the operation log,
\* one MemoryOp per line, and the SQLite index.  Timestamps are left out:
\* nothing reads them back except compact, which copies them.

\* MemoryOp::Add and MemoryOp::Forget as log lines; Malformed is a line that
\* serde_json::from_str rejects.
AddOp(id, content, summary) ==
  [op |-> "Add", id |-> id, content |-> content, summary |-> summary]
ForgetOp(id) == [op |-> "Forget", id |-> id]
Malformed == [op |-> "Malformed"]

\* The texts add_memory is given and the queries search is given.
Contents == {"apple pie", "plum"}
Summaries == {"fruit"}
Queries == {"apple", "fruit", "plum fruit", ""}
Limits == {1, 5}

\* str::split_whitespace, which is also how the index tokenizes these texts.
Words(text) ==
  CASE text = "apple pie" -> <<"apple", "pie">>
    [] text = "plum" -> <<"plum">>
    [] text = "fruit" -> <<"fruit">>
    [] text = "apple" -> <<"apple">>
    [] text = "pie" -> <<"pie">>
    [] text = "plum fruit" -> <<"plum", "fruit">>
    [] OTHER -> <<>>

\* The index file: the rows of table memories, the entries of the full-text
\* table memories_fts (which names its rows by rowid and reads their columns
\* back from memories), and the AUTOINCREMENT counter.
EmptyIndex == [rows |-> {}, fts |-> {}, seq |-> 0]

\* INSERT INTO memories: a fresh rowid, and trigger memories_ai indexes it.
Insert(d, id, content, summary) ==
  LET r == d.seq + 1
  IN  [rows |-> d.rows \cup {[rowid |-> r, id |-> id, content |-> content,
                              summary |-> summary]},
       fts |-> d.fts \cup {[rowid |-> r, content |-> content, summary |-> summary]},
       seq |-> r]

\* INSERT OR REPLACE INTO memories: a row with the same id is removed by the
\* conflict resolution, for which SQLite runs no delete trigger (recursive
\* triggers are off unless switched on, and the store never does), so its
\* full-text entry stays; then the new row is inserted.
InsertOrReplace(d, id, content, summary) ==
  Insert([d EXCEPT !.rows = {x \in d.rows : x.id # id}], id, content, summary)

\* DELETE FROM memories WHERE id = ?: trigger memories_ad removes the
\* full-text entry of each deleted row.
Delete(d, id) ==
  LET gone == {x.rowid : x \in {y \in d.rows : y.id = id}}
  IN  [d EXCEPT !.rows = {x \in d.rows : x.id # id},
                !.fts = {e \in d.fts : e.rowid \notin gone}]

\* The elements of a set of rowids in increasing order.
RECURSIVE Ascending(_)
Ascending(S) ==
  IF S = {} THEN <<>>
  ELSE LET m == CHOOSE x \in S : \A y \in S : x <= y
       IN  <<m>> \o Ascending(S \ {m})

\* The statements of sync_index's loop, run over the lines inside the
\* transaction: ok is whether every line parsed, index is what they built.
RECURSIVE Replay(_, _)
Replay(d, lines) ==
  IF lines = <<>> THEN [ok |-> TRUE, index |-> d]
  ELSE LET o == Head(lines)
       IN  IF o.op = "Add"
             THEN Replay(InsertOrReplace(d, o.id, o.content, o.summary), Tail(lines))
           ELSE IF o.op = "Forget"
             THEN Replay(Delete(d, o.id), Tail(lines))
           ELSE [ok |-> FALSE, index |-> d]

\* sync_index without the transaction: the statements executed before a
\* line that fails to parse stay in the index.
sync_index_NoRollback(d, file) ==
  IF IsNone(file) THEN [ok |-> TRUE, index |-> d] ELSE Replay(d, Unwrap(file))

\* MemoryManager::sync_index on index d: nothing to do without a log file;
\* otherwise replay it and commit, or on a parse error drop the transaction,
\* which rolls it back.
sync_index(d, file) ==
  IF IsNone(file) THEN [ok |-> TRUE, index |-> d]
  ELSE LET r == Replay(d, Unwrap(file))
       IN  IF r.ok THEN r ELSE [ok |-> FALSE, index |-> d]

\* MemoryManager::search on index d: the full-text entries holding every
\* word of the query, in rowid order, cut at limit, each read back from
\* memories by rowid.  An entry whose row is gone makes the query fail, and
\* so does a query without words.
search(d, query, limit) ==
  LET words == Words(query)
      hits == {e \in d.fts :
                 \A i \in DOMAIN words :
                   \/ \E k \in DOMAIN Words(e.content) : Words(e.content)[k] = words[i]
                   \/ \E k \in DOMAIN Words(e.summary) : Words(e.summary)[k] = words[i]}
      order == Ascending({e.rowid : e \in hits})
      taken == SubSeq(order, 1, IF Len(order) < limit THEN Len(order) ELSE limit)
      RowOf(r) == CHOOSE x \in d.rows : x.rowid = r
  IN  IF words = <<>> THEN [ok |-> FALSE, rows |-> <<>>]
      ELSE IF \E i \in DOMAIN taken : \A x \in d.rows : x.rowid # taken[i]
        THEN [ok |-> FALSE, rows |-> <<>>]
      ELSE [ok |-> TRUE, rows |-> [i \in DOMAIN taken |-> RowOf(taken[i])]]

\* compact's snapshot that stops after the first row.
SnapshotOps_FirstRow(d) ==
  LET order == Ascending({x.rowid : x \in d.rows})
      RowOf(r) == CHOOSE x \in d.rows : x.rowid = r
  IN  [i \in 1..(IF Len(order) > 1 THEN 1 ELSE Len(order)) |->
         AddOp(RowOf(order[i]).id, RowOf(order[i]).content, RowOf(order[i]).summary)]

\* compact: SELECT id, content, summary, timestamp FROM memories, every row
\* turned into an Add op.
SnapshotOps(d) ==
  LET order == Ascending({x.rowid : x \in d.rows})
      RowOf(r) == CHOOSE x \in d.rows : x.rowid = r
  IN  [i \in DOMAIN order |->
         AddOp(RowOf(order[i]).id, RowOf(order[i]).content, RowOf(order[i]).summary)]

\* ------------------------------------------------------------------ state
VARIABLES
  config,             \* Agent.config.tools (never written after Agent::new)
  memories,           \* whether the memory index holds rows matching the input
  history,            \* Agent.state.history
  pending_tool_call,  \* Agent.pending_tool_call : Option<PendingToolCall>
  lock,               \* holder of the provider / config / tools mutex
  pc,                 \* where each caller is in its operation
  op,                 \* the operation each caller entered by
  req,                \* chat_internal: the messages cloned for the request
  batch,              \* chat_internal: response.tool_calls being processed
  idx,                \* chat_internal: position of the for loop in batch
  cur,                \* approve/reject: the PendingToolCall taken
  arg,                \* chat: user_input; reject: reason
  ret,                \* the Result the caller's last operation returned
  nChats,             \* chat() calls so far
  nBackend,           \* chat_completion requests so far
  nextId,             \* tool-call ids the backend has handed out
  lastRequest,        \* the messages of the latest chat_completion request
  invoked,            \* every Tool::call made, in order
  approved,           \* tool names the user has approved so far
  log_file,           \* the lines of <base>.jsonl, None while it does not exist
  log_partial,        \* the last line of the log has no newline yet
  tmp_file,           \* the lines of <base>.jsonl.tmp, None while it does not exist
  db,                 \* the index <base>.db
  mpc,                \* where the MemoryManager is in its operation
  mcur,               \* the MemoryOp of the operation under way
  mret,               \* what the MemoryManager's last operation returned
  nMemIds,            \* ids add_memory has generated
  nMemOps,            \* MemoryManager operations started
  sec_arguments,      \* the arguments check_shell_security was last given
  sec_result,         \* what it returned
  tasks,              \* TaskStack.tasks, the Vec<Task>
  paused,             \* Agent.paused
  lpc,                \* each autonomous loop's position in run_autonomous_loop
  ltask,              \* each loop's `task`, the popped task its chat() works on
  lret,               \* what each loop returned
  nTaskIds,           \* ids push has generated
  ran,                \* the ids of the tasks chat() was called for, in order
  nClears,            \* calls of clear_completed
  mutex,              \* the holder of each of the Agent's mutexes, 0 if free
  site,               \* each task's position in the operation it runs
  opk,                \* the operation each task runs
  sent,               \* the requests each caller's operation has sent so far
  batches             \* the batches each caller's operation has gone through

agentvars ==
  <<config, memories, history, pending_tool_call, lock, pc, op, req, batch, idx, cur, arg,
    ret, nChats, nBackend, nextId, lastRequest, invoked, approved>>

storevars == <<log_file, log_partial, tmp_file, db, mpc, mcur, mret, nMemIds, nMemOps>>

checkvars == <<sec_arguments, sec_result>>

taskvars == <<tasks, paused, lpc, ltask, lret, nTaskIds, ran, nClears>>

lockvars == <<mutex, site, opk>>

turnvars == <<sent, batches>>

vars == <<agentvars, storevars, checkvars, taskvars, lockvars, turnvars>>

\* check_shell_security has not been called on its own.
NoCheck ==
  /\ sec_arguments = None
  /\ sec_result = None

\* The agent's mutexes.
Locks ==
  {"provider", "state", "tools", "memory", "config", "task_stack", "paused",
   "pending_tool_call"}

\* The number of tasks (tokio tasks) sharing the Agent.
MaxProcs == 3

Procs == 1..MaxProcs

\* The number of autonomous loops the front-end may have started.
MaxLoops == 1

Loops == 1..MaxLoops

\* TaskStack::new and Agent::new: no task, not paused, no loop started.
NoTasks ==
  /\ tasks = <<>>
  /\ paused = FALSE
  /\ lpc = [lp \in Loops |-> "off"]
  /\ ltask = [lp \in Loops |-> None]
  /\ lret = [lp \in Loops |-> None]
  /\ nTaskIds = 0
  /\ ran = <<>>
  /\ nClears = 0

\* No operation has sent a request or gone through a batch.
NoTurn ==
  /\ sent = [c \in Callers |-> 0]
  /\ batches = [c \in Callers |-> 0]

\* Agent::new: every mutex free, no operation under way.
NoLocks ==
  /\ mutex = [k \in Locks |-> 0]
  /\ site = [p \in Procs |-> "idle"]
  /\ opk = [p \in Procs |-> "none"]

\* The store files before the first run: no log, an empty index.
NoStore ==
  /\ log_file = None
  /\ log_partial = FALSE
  /\ tmp_file = None
  /\ db = EmptyIndex
  /\ mcur = None
  /\ mret = None
  /\ nMemIds = 0
  /\ nMemOps = 0

\* Agent::new: empty history, nothing pending, every mutex free.
Init ==
  /\ config \in Configs
  /\ memories \in BOOLEAN
  /\ history = <<>>
  /\ pending_tool_call = None
  /\ lock = [provider |-> NoCaller, config |-> NoCaller, tools |-> NoCaller]
  /\ pc = [c \in Callers |-> "idle"]
  /\ op = [c \in Callers |-> "none"]
  /\ req = [c \in Callers |-> <<>>]
  /\ batch = [c \in Callers |-> <<>>]
  /\ idx = [c \in Callers |-> 0]
  /\ cur = [c \in Callers |-> None]
  /\ arg = [c \in Callers |-> None]
  /\ ret = [c \in Callers |-> None]
  /\ nChats = 0
  /\ nBackend = 0
  /\ nextId = 0
  /\ lastRequest = None
  /\ invoked = <<>>
  /\ approved = {}
  /\ NoStore
  /\ mpc = "idle"
  /\ NoCheck
  /\ NoTasks
  /\ NoLocks
  /\ NoTurn

\* The caller's operation returns `result`; its locals go out of scope.
Finish(c, result) ==
  /\ pc' = [pc EXCEPT ![c] = "idle"]
  /\ op' = [op EXCEPT ![c] = "none"]
  /\ req' = [req EXCEPT ![c] = <<>>]
  /\ batch' = [batch EXCEPT ![c] = <<>>]
  /\ idx' = [idx EXCEPT ![c] = 0]
  /\ cur' = [cur EXCEPT ![c] = None]
  /\ arg' = [arg EXCEPT ![c] = None]
  /\ ret' = [ret EXCEPT ![c] = result]

Goto(c, loc) == pc' = [pc EXCEPT ![c] = loc]

Ok(text) == <<"Ok", text>>
Err(msg) == <<"Err", msg>>

\* ------------------------------------------------------------------- chat
\* A chat that starts the history over with its own User message.
chat_Truncates(c, user_input, outcome) ==
  /\ pc[c] = "idle"
  /\ nChats < MaxChats
  /\ nChats' = nChats + 1
  /\ history' = <<UserMessage(user_input)>>
  /\ Goto(c, "ci_snapshot")
  /\ op' = [op EXCEPT ![c] = "chat"]
  /\ arg' = [arg EXCEPT ![c] = Some(user_input)]
  /\ ret' = [ret EXCEPT ![c] = None]
  /\ UNCHANGED <<req, batch, idx, cur>>
  /\ UNCHANGED <<config, memories, pending_tool_call, lock, nBackend, nextId, lastRequest,
                 invoked, approved>>

\* Agent::chat up to the call of chat_internal.  memory.search either fails
\* (outcome = "error") or returns the matching rows; nothing in the agent adds
\* to the store, so whether there are rows is fixed for the run.
chat(c, user_input, outcome) ==
  /\ pc[c] = "idle"
  /\ nChats < MaxChats
  /\ nChats' = nChats + 1
  /\ IF outcome = "error"
       THEN /\ Finish(c, Err("memory"))
            /\ UNCHANGED history
       ELSE /\ history' = history
                 \o (IF memories THEN <<SystemMessage>> ELSE <<>>)
                 \o <<UserMessage(user_input)>>
            /\ Goto(c, "ci_snapshot")
            /\ op' = [op EXCEPT ![c] = "chat"]
            /\ arg' = [arg EXCEPT ![c] = Some(user_input)]
            /\ ret' = [ret EXCEPT ![c] = None]
            /\ UNCHANGED <<req, batch, idx, cur>>
  /\ UNCHANGED <<config, memories, pending_tool_call, lock, nBackend, nextId, lastRequest,
                 invoked, approved>>

\* chat_internal, top of the loop: clone the history under the state and
\* tools locks.
chat_internal_snapshot(c) ==
  /\ pc[c] = "ci_snapshot"
  /\ lock.tools = NoCaller
  /\ req' = [req EXCEPT ![c] = history]
  /\ batch' = [batch EXCEPT ![c] = <<>>]
  /\ idx' = [idx EXCEPT ![c] = 0]
  /\ Goto(c, "ci_send")
  /\ UNCHANGED <<config, memories, history, pending_tool_call, lock, op, cur, arg, ret, nChats,
                 nBackend, nextId, lastRequest, invoked, approved>>

\* chat_internal: take the provider lock and send the request.
chat_internal_send(c) ==
  /\ pc[c] = "ci_send"
  /\ lock.provider = NoCaller
  /\ nBackend < MaxBackend
  /\ lock' = [lock EXCEPT !.provider = c]
  /\ lastRequest' = Some(req[c])
  /\ nBackend' = nBackend + 1
  /\ Goto(c, "ci_await")
  /\ UNCHANGED <<config, memories, history, pending_tool_call, op, req, batch, idx, cur, arg, ret,
                 nChats, nextId, invoked, approved>>

\* A failing chat_completion whose provider guard is never dropped.
backend_error_KeepsLock(c) ==
  /\ pc[c] = "ci_await"
  /\ Finish(c, Err("backend"))
  /\ UNCHANGED <<config, memories, history, pending_tool_call, lock, nChats, nBackend, nextId,
                 lastRequest, invoked, approved>>

\* provider.chat_completion(request).await? fails: the error is returned.
backend_error(c) ==
  /\ pc[c] = "ci_await"
  /\ lock' = [lock EXCEPT !.provider = NoCaller]
  /\ Finish(c, Err("backend"))
  /\ UNCHANGED <<config, memories, history, pending_tool_call, nChats, nBackend, nextId,
                 lastRequest, invoked, approved>>

\* The batches of n tool calls with fresh ids first+1 .. first+n.
Batches(first, n) ==
  {[i \in 1..n |-> ToolCall(first + i, k[i])] : k \in [1..n -> CallKinds]}

\* What the backend may answer: nothing at all, a final text (tool_calls
\* absent or an empty list), or a batch of tool calls.
Responses ==
  {[content |-> None, tool_calls |-> None],
   [content |-> Some(<<"text", "done">>), tool_calls |-> None],
   [content |-> Some(<<"text", "done">>), tool_calls |-> Some(<<>>)]}
  \cup {[content |-> None, tool_calls |-> Some(b)] :
          b \in UNION {Batches(nextId, n) : n \in 1..MaxBatch}}

\* response.content.unwrap_or_default()
unwrap_or_default(content) == IF IsSome(content) THEN Unwrap(content)[2] ELSE ""

HasToolCalls(m) == IsSome(m.tool_calls) /\ Len(Unwrap(m.tool_calls)) > 0

\* chat_completion succeeds: drop the provider lock, push the Assistant
\* message, and return the content unless there are tool calls.
backend_response(c, response) ==
  /\ pc[c] = "ci_await"
  /\ HasToolCalls(response) => nextId + Len(Unwrap(response.tool_calls)) <= MaxIds
  /\ lock' = [lock EXCEPT !.provider = NoCaller]
  /\ history' = Append(history, AssistantMessage(response.content, response.tool_calls))
  /\ IF HasToolCalls(response)
       THEN /\ batch' = [batch EXCEPT ![c] = Unwrap(response.tool_calls)]
            /\ nextId' = nextId + Len(Unwrap(response.tool_calls))
            /\ Goto(c, "ci_gate")
            /\ UNCHANGED <<op, req, idx, cur, arg, ret>>
       ELSE /\ Finish(c, Ok(unwrap_or_default(response.content)))
            /\ UNCHANGED nextId
  /\ UNCHANGED <<config, memories, pending_tool_call, nChats, nBackend, lastRequest, invoked,
                 approved>>

PendingToolCall(tool_call, arguments) ==
  [id |-> tool_call.id, tool_name |-> tool_call.name, arguments |-> arguments]

\* chat_internal with a non-empty tool_calls: take the config lock; when
\* approval is required record the first call as pending and return the
\* sentinel, otherwise enter the for loop.
approval_gate(c) ==
  /\ pc[c] = "ci_gate"
  /\ lock.config = NoCaller
  /\ IF config.require_approval
       THEN LET tool_call == batch[c][1]
                arguments == from_str(tool_call.arguments)
            IN  /\ IF IsNone(arguments)
                     THEN /\ Finish(c, Err("json"))
                          /\ UNCHANGED pending_tool_call
                     ELSE /\ pending_tool_call' =
                               Some(PendingToolCall(tool_call, Unwrap(arguments)))
                          /\ Finish(c, Ok("WAITING_FOR_APPROVAL"))
                /\ UNCHANGED lock
       ELSE /\ lock' = [lock EXCEPT !.config = c]
            /\ idx' = [idx EXCEPT ![c] = 1]
            /\ Goto(c, "ci_tool")
            /\ UNCHANGED <<pending_tool_call, op, req, batch, cur, arg, ret>>
  /\ UNCHANGED <<config, memories, history, nChats, nBackend, nextId, lastRequest, invoked,
                 approved>>

Invocation(id, name, arguments) == [id |-> id, name |-> name, arguments |-> arguments]

\* One iteration of `for tool_call in tool_calls` up to tool.call(), or
\* the `continue` of the outer loop when the batch is exhausted.
execute_tool(c) ==
  /\ pc[c] = "ci_tool"
  /\ IF idx[c] > Len(batch[c])
       THEN /\ lock' = [lock EXCEPT !.config = NoCaller]
            /\ Goto(c, "ci_snapshot")
            /\ UNCHANGED <<history, invoked, op, req, batch, idx, cur, arg, ret>>
       ELSE LET tool_call == batch[c][idx[c]]
                arguments == from_str(tool_call.arguments)
            IN  IF IsNone(arguments)
                  THEN /\ lock' = [lock EXCEPT !.config = NoCaller]
                       /\ Finish(c, Err("json"))
                       /\ UNCHANGED <<history, invoked>>
                ELSE IF tool_call.name = "shell"
                        /\ check_shell_security(config, Unwrap(arguments)) # <<>>
                  THEN /\ history' = Append(history, ToolMessage(tool_call.id,
                            SecurityContent(check_shell_security(config, Unwrap(arguments)))))
                       /\ idx' = [idx EXCEPT ![c] = idx[c] + 1]
                       /\ UNCHANGED <<lock, invoked, pc, op, req, batch, cur, arg, ret>>
                ELSE IF tool_call.name \in Registered
                  THEN /\ lock.tools = NoCaller
                       /\ lock' = [lock EXCEPT !.tools = c]
                       /\ invoked' = Append(invoked,
                            Invocation(tool_call.id, tool_call.name, Unwrap(arguments)))
                       /\ Goto(c, "ci_toolwait")
                       /\ UNCHANGED <<history, op, req, batch, idx, cur, arg, ret>>
                ELSE /\ lock.tools = NoCaller
                     /\ history' = Append(history,
                          ToolMessage(tool_call.id, NotFoundContent(tool_call.name)))
                     /\ idx' = [idx EXCEPT ![c] = idx[c] + 1]
                     /\ UNCHANGED <<lock, invoked, pc, op, req, batch, cur, arg, ret>>
  /\ UNCHANGED <<config, memories, pending_tool_call, nChats, nBackend, nextId, lastRequest,
                 approved>>

\* tool.call(arguments).await? returns inside the for loop.
tool_returns(c, outcome) ==
  /\ pc[c] = "ci_toolwait"
  /\ IF outcome = "ok"
       THEN LET tool_call == batch[c][idx[c]]
            IN  /\ lock' = [lock EXCEPT !.tools = NoCaller]
                /\ history' = Append(history, ToolMessage(tool_call.id,
                     ResultContent(tool_call.name, Unwrap(from_str(tool_call.arguments)))))
                /\ idx' = [idx EXCEPT ![c] = idx[c] + 1]
                /\ Goto(c, "ci_tool")
                /\ UNCHANGED <<op, req, batch, cur, arg, ret>>
       ELSE /\ lock' = [lock EXCEPT !.tools = NoCaller, !.config = NoCaller]
            /\ Finish(c, Err("tool"))
            /\ UNCHANGED history
  /\ UNCHANGED <<config, memories, pending_tool_call, nChats, nBackend, nextId, lastRequest,
                 invoked, approved>>

\* ---------------------------------------------------------------- approve
\* An approve_tool_call that reads the pending call and leaves it in the slot.
approve_tool_call_Peeks(c) ==
  /\ pc[c] = "idle"
  /\ IF IsNone(pending_tool_call)
       THEN /\ Finish(c, Err("No pending tool call to approve"))
            /\ UNCHANGED approved
       ELSE /\ cur' = [cur EXCEPT ![c] = pending_tool_call]
            /\ op' = [op EXCEPT ![c] = "approve"]
            /\ ret' = [ret EXCEPT ![c] = None]
            /\ approved' = approved \cup {Unwrap(pending_tool_call).tool_name}
            /\ Goto(c, "ap_check")
            /\ UNCHANGED <<req, batch, idx, arg>>
  /\ UNCHANGED <<config, memories, history, pending_tool_call, lock, nChats, nBackend, nextId,
                 lastRequest, invoked>>

\* approve_tool_call: p.take() under the pending lock.
approve_tool_call(c) ==
  /\ pc[c] = "idle"
  /\ IF IsNone(pending_tool_call)
       THEN /\ Finish(c, Err("No pending tool call to approve"))
            /\ UNCHANGED <<pending_tool_call, approved>>
       ELSE /\ pending_tool_call' = None
            /\ cur' = [cur EXCEPT ![c] = pending_tool_call]
            /\ op' = [op EXCEPT ![c] = "approve"]
            /\ ret' = [ret EXCEPT ![c] = None]
            /\ approved' = approved \cup {Unwrap(pending_tool_call).tool_name}
            /\ Goto(c, "ap_check")
            /\ UNCHANGED <<req, batch, idx, arg>>
  /\ UNCHANGED <<config, memories, history, lock, nChats, nBackend, nextId, lastRequest,
                 invoked>>

\* approve_tool_call: the shell security check under the config lock.
approve_check(c) ==
  /\ pc[c] = "ap_check"
  /\ LET p == Unwrap(cur[c])
     IN  IF p.tool_name = "shell"
           THEN /\ lock.config = NoCaller
                /\ IF check_shell_security(config, p.arguments) # <<>>
                     THEN Finish(c, Err("security"))
                     ELSE /\ Goto(c, "ap_tool")
                          /\ UNCHANGED <<op, req, batch, idx, cur, arg, ret>>
           ELSE /\ Goto(c, "ap_tool")
                /\ UNCHANGED <<op, req, batch, idx, cur, arg, ret>>
  /\ UNCHANGED <<config, memories, history, pending_tool_call, lock, nChats, nBackend, nextId,
                 lastRequest, invoked, approved>>

\* approve_tool_call: look the tool up under the tools lock and call it.
approve_execute(c) ==
  /\ pc[c] = "ap_tool"
  /\ lock.tools = NoCaller
  /\ LET p == Unwrap(cur[c])
     IN  IF p.tool_name \in Registered
           THEN /\ lock' = [lock EXCEPT !.tools = c]
                /\ invoked' = Append(invoked, Invocation(p.id, p.tool_name, p.arguments))
                /\ Goto(c, "ap_toolwait")
                /\ UNCHANGED history
           ELSE /\ history' = Append(history,
                     ToolMessage(p.id, NotFoundContent(p.tool_name)))
                /\ Goto(c, "ci_snapshot")
                /\ UNCHANGED <<lock, invoked>>
  /\ UNCHANGED <<config, memories, pending_tool_call, op, req, batch, idx, cur, arg, ret, nChats,
                 nBackend, nextId, lastRequest, approved>>

\* approve_tool_call: tool.call(p.arguments).await? returns.
approve_returns(c, outcome) ==
  /\ pc[c] = "ap_toolwait"
  /\ lock' = [lock EXCEPT !.tools = NoCaller]
  /\ IF outcome = "ok"
       THEN LET p == Unwrap(cur[c])
            IN  /\ history' = Append(history,
                     ToolMessage(p.id, ResultContent(p.tool_name, p.arguments)))
                /\ Goto(c, "ci_snapshot")
                /\ UNCHANGED <<op, req, batch, idx, cur, arg, ret>>
       ELSE /\ Finish(c, Err("tool"))
            /\ UNCHANGED history
  /\ UNCHANGED <<config, memories, pending_tool_call, nChats, nBackend, nextId, lastRequest,
                 invoked, approved>>

\* ----------------------------------------------------------------- reject
\* A reject_tool_call that records the rejection even when nothing is pending.
reject_tool_call_PushesAnyway(c, reason) ==
  /\ pc[c] = "idle"
  /\ IF IsNone(pending_tool_call)
       THEN /\ Finish(c, Err("No pending tool call to reject"))
            /\ history' = Append(history, ToolMessage(0, RejectContent(reason)))
            /\ UNCHANGED pending_tool_call
       ELSE /\ pending_tool_call' = None
            /\ history' = Append(history,
                 ToolMessage(Unwrap(pending_tool_call).id, RejectContent(reason)))
            /\ cur' = [cur EXCEPT ![c] = pending_tool_call]
            /\ op' = [op EXCEPT ![c] = "reject"]
            /\ arg' = [arg EXCEPT ![c] = Some(reason)]
            /\ ret' = [ret EXCEPT ![c] = None]
            /\ Goto(c, "ci_snapshot")
            /\ UNCHANGED <<req, batch, idx>>
  /\ UNCHANGED <<config, memories, lock, nChats, nBackend, nextId, lastRequest, invoked,
                 approved>>

\* reject_tool_call: p.take() under the pending lock, then the Tool message.
reject_tool_call(c, reason) ==
  /\ pc[c] = "idle"
  /\ IF IsNone(pending_tool_call)
       THEN /\ Finish(c, Err("No pending tool call to reject"))
            /\ UNCHANGED <<pending_tool_call, history>>
       ELSE /\ pending_tool_call' = None
            /\ history' = Append(history,
                 ToolMessage(Unwrap(pending_tool_call).id, RejectContent(reason)))
            /\ cur' = [cur EXCEPT ![c] = pending_tool_call]
            /\ op' = [op EXCEPT ![c] = "reject"]
            /\ arg' = [arg EXCEPT ![c] = Some(reason)]
            /\ ret' = [ret EXCEPT ![c] = None]
            /\ Goto(c, "ci_snapshot")
            /\ UNCHANGED <<req, batch, idx>>
  /\ UNCHANGED <<config, memories, lock, nChats, nBackend, nextId, lastRequest, invoked,
                 approved>>

\* ---------------------------------------------------------- specification
UserInputs == {"hi"}
Reasons == {"no", "unsafe"}
SearchResults == {"error", "rows"}
Outcomes == {"ok", "err"}

Next ==
  \E c \in Callers :
    \/ \E u \in UserInputs, m \in SearchResults : chat(c, u, m)
    \/ chat_internal_snapshot(c)
    \/ chat_internal_send(c)
    \/ backend_error(c)
    \/ \E r \in Responses : backend_response(c, r)
    \/ approval_gate(c)
    \/ execute_tool(c)
    \/ \E o \in Outcomes : tool_returns(c, o)
    \/ c \in Approvers /\ approve_tool_call(c)
    \/ approve_check(c)
    \/ approve_execute(c)
    \/ \E o \in Outcomes : approve_returns(c, o)
    \/ \E r \in Reasons : c \in Approvers /\ reject_tool_call(c, r)

Spec == Init /\ [][Next /\ UNCHANGED <<storevars, checkvars, taskvars, lockvars, turnvars>>]_vars

\* ------------------------------------------------- turns without approval
\* The agent of a configuration that requires no approval.
TurnInit ==
  /\ Init
  /\ ~config.require_approval

\* The caller's operation starts: nothing sent, no batch gone through.
StartsTurn(c) ==
  /\ sent' = [sent EXCEPT ![c] = 0]
  /\ batches' = [batches EXCEPT ![c] = 0]

\* A turn that ends with the batch instead of asking the backend again.
EndsBatch_Returns(c) ==
  /\ pc[c] = "ci_tool"
  /\ idx[c] > Len(batch[c])
  /\ lock' = [lock EXCEPT !.config = NoCaller]
  /\ Finish(c, Ok("done"))
  /\ batches' = [batches EXCEPT ![c] = batches[c] + 1]
  /\ UNCHANGED <<config, memories, history, pending_tool_call, nChats, nBackend, nextId,
                 lastRequest, invoked, approved, sent>>

\* The for loop has gone through the batch: `continue` of the outer loop.
EndsBatch(c) ==
  /\ pc[c] = "ci_tool"
  /\ idx[c] > Len(batch[c])
  /\ execute_tool(c)
  /\ batches' = [batches EXCEPT ![c] = batches[c] + 1]
  /\ UNCHANGED sent

\* One tool call of the batch is taken up.
NextCall(c) ==
  /\ pc[c] = "ci_tool"
  /\ idx[c] <= Len(batch[c])
  /\ execute_tool(c)
  /\ UNCHANGED turnvars

\* The operations of Next for such an agent, with the count of what each
\* caller's chat() has sent and gone through.
TurnNext ==
  \E c \in Callers :
    \/ \E u \in UserInputs, m \in SearchResults : chat(c, u, m) /\ StartsTurn(c)
    \/ chat_internal_snapshot(c) /\ UNCHANGED turnvars
    \/ /\ chat_internal_send(c)
       /\ sent' = [sent EXCEPT ![c] = sent[c] + 1]
       /\ UNCHANGED batches
    \/ backend_error(c) /\ UNCHANGED turnvars
    \/ \E r \in Responses : backend_response(c, r) /\ UNCHANGED turnvars
    \/ approval_gate(c) /\ UNCHANGED turnvars
    \/ NextCall(c)
    \/ EndsBatch(c)
    \/ \E o \in Outcomes : tool_returns(c, o) /\ UNCHANGED turnvars

TurnSpec == TurnInit /\ [][TurnNext /\ UNCHANGED <<storevars, checkvars, taskvars, lockvars>>]_vars

\* ------------------------------------------------ races for one approval
\* The agent of a configuration that requires approval.
RaceInit ==
  /\ Init
  /\ config.require_approval

\* Every caller may chat, approve and reject; with approval required the for
\* loop of chat_internal is never entered.
RaceNext ==
  \E c \in Callers :
    \/ \E u \in UserInputs, m \in SearchResults : chat(c, u, m)
    \/ chat_internal_snapshot(c)
    \/ chat_internal_send(c)
    \/ backend_error(c)
    \/ \E r \in Responses : backend_response(c, r)
    \/ approval_gate(c)
    \/ approve_tool_call(c)
    \/ approve_check(c)
    \/ approve_execute(c)
    \/ \E o \in Outcomes : approve_returns(c, o)
    \/ \E r \in Reasons : reject_tool_call(c, r)

RaceSpec ==
  RaceInit /\ [][RaceNext /\ UNCHANGED <<storevars, checkvars, taskvars, lockvars, turnvars>>]_vars

\* ------------------------------------------------------- MemoryManager
\* The store's operations take &mut self (search: &self) behind the agent's
\* memory mutex, so one runs at a time; a crash can end the process at any
\* await or I/O call, and the files stay as they are.

MemReturn(result) ==
  /\ mpc' = "idle"
  /\ mcur' = None
  /\ mret' = result

\* append_to_log's write: the text of op and then the newline.  After a
\* line that was left without its newline the text lands on that line.
Appended(lines, o) ==
  IF log_partial /\ Len(lines) > 0
    THEN [lines EXCEPT ![Len(lines)] = Malformed]
    ELSE Append(lines, o)

LogLines == IF IsSome(log_file) THEN Unwrap(log_file) ELSE <<>>

\* MemoryManager::new: open the index, create the tables if they are not
\* there, replay the log.
MemoryManager_new ==
  /\ mpc = "closed"
  /\ nMemOps < MaxMemOps
  /\ nMemOps' = nMemOps + 1
  /\ LET r == sync_index(db, log_file)
     IN  /\ db' = r.index
         /\ mpc' = IF r.ok THEN "idle" ELSE "closed"
         /\ mret' = IF r.ok THEN <<"Ok", "new">> ELSE <<"Err", "new">>
  /\ UNCHANGED <<log_file, log_partial, tmp_file, mcur, nMemIds>>
  /\ UNCHANGED agentvars

\* add_memory up to the end of append_to_log.  written = "line": the op
\* and its newline are written; "none": the open or the write fails and
\* the error is returned; "text": the process ends between the write of the
\* text and the write of the newline.
add_memory(content, summary, written) ==
  /\ mpc = "idle"
  /\ nMemOps < MaxMemOps
  /\ nMemIds < MaxAdds
  /\ nMemOps' = nMemOps + 1
  /\ nMemIds' = nMemIds + 1
  /\ LET o == AddOp(nMemIds + 1, content, summary)
     IN  CASE written = "line" ->
                /\ log_file' = Some(Appended(LogLines, o))
                /\ log_partial' = FALSE
                /\ mpc' = "add_index"
                /\ mcur' = Some(o)
                /\ mret' = None
           [] written = "text" ->
                /\ log_file' = Some(Appended(LogLines, o))
                /\ log_partial' = TRUE
                /\ mpc' = "closed"
                /\ mcur' = None
                /\ mret' = <<"Crash", "append">>
           [] OTHER ->
                /\ MemReturn(<<"Err", "add", o.id>>)
                /\ UNCHANGED <<log_file, log_partial>>
  /\ UNCHANGED <<tmp_file, db>>
  /\ UNCHANGED agentvars

\* add_memory: the INSERT into the index, which succeeds or fails.
add_index(done) ==
  /\ mpc = "add_index"
  /\ LET o == Unwrap(mcur)
     IN  IF done
           THEN /\ db' = Insert(db, o.id, o.content, o.summary)
                /\ MemReturn(<<"Ok", "add", o.id>>)
           ELSE /\ MemReturn(<<"Err", "add", o.id>>)
                /\ UNCHANGED db
  /\ UNCHANGED <<log_file, log_partial, tmp_file, nMemIds, nMemOps>>
  /\ UNCHANGED agentvars

\* forget_memory up to the end of append_to_log.
forget_memory(id, written) ==
  /\ mpc = "idle"
  /\ nMemOps < MaxMemOps
  /\ nMemOps' = nMemOps + 1
  /\ LET o == ForgetOp(id)
     IN  CASE written = "line" ->
                /\ log_file' = Some(Appended(LogLines, o))
                /\ log_partial' = FALSE
                /\ mpc' = "forget_index"
                /\ mcur' = Some(o)
                /\ mret' = None
           [] written = "text" ->
                /\ log_file' = Some(Appended(LogLines, o))
                /\ log_partial' = TRUE
                /\ mpc' = "closed"
                /\ mcur' = None
                /\ mret' = <<"Crash", "append">>
           [] OTHER ->
                /\ MemReturn(<<"Err", "forget", id>>)
                /\ UNCHANGED <<log_file, log_partial>>
  /\ UNCHANGED <<tmp_file, db, nMemIds>>
  /\ UNCHANGED agentvars

\* forget_memory: the DELETE in the index, which succeeds or fails.
forget_index(done) ==
  /\ mpc = "forget_index"
  /\ LET o == Unwrap(mcur)
     IN  IF done
           THEN /\ db' = Delete(db, o.id)
                /\ MemReturn(<<"Ok", "forget", o.id>>)
           ELSE /\ MemReturn(<<"Err", "forget", o.id>>)
                /\ UNCHANGED db
  /\ UNCHANGED <<log_file, log_partial, tmp_file, nMemIds, nMemOps>>
  /\ UNCHANGED agentvars

\* The (content, summary) pairs search hands back.
Pairs(rows) == [i \in DOMAIN rows |-> <<rows[i].content, rows[i].summary>>]

\* MemoryManager::search as an operation of the open store.
memory_search(query, limit) ==
  /\ mpc = "idle"
  /\ LET r == search(db, query, limit)
     IN  MemReturn(IF r.ok THEN <<"Ok", "search", Pairs(r.rows)>> ELSE <<"Err", "search">>)
  /\ UNCHANGED <<log_file, log_partial, tmp_file, db, nMemIds, nMemOps>>
  /\ UNCHANGED agentvars

\* compact up to the rename: create the temporary file and write one Add op
\* per row of the index into it, or fail on the way.
compact(done) ==
  /\ mpc = "idle"
  /\ nMemOps < MaxMemOps
  /\ nMemOps' = nMemOps + 1
  /\ IF done
       THEN /\ tmp_file' = Some(SnapshotOps(db))
            /\ mpc' = "compact_rename"
            /\ mret' = None
            /\ UNCHANGED mcur
       ELSE /\ tmp_file' = Some(<<>>)
            /\ MemReturn(<<"Err", "compact">>)
  /\ UNCHANGED <<log_file, log_partial, db, nMemIds>>
  /\ UNCHANGED agentvars

\* compact: fs::rename(temp_log_path, &self.log_path), which succeeds or fails.
compact_rename(done) ==
  /\ mpc = "compact_rename"
  /\ IF done
       THEN /\ log_file' = tmp_file
            /\ log_partial' = FALSE
            /\ tmp_file' = None
            /\ MemReturn(<<"Ok", "compact">>)
       ELSE /\ MemReturn(<<"Err", "compact">>)
            /\ UNCHANGED <<log_file, log_partial, tmp_file>>
  /\ UNCHANGED <<db, nMemIds, nMemOps>>
  /\ UNCHANGED agentvars

\* The process ends (killed, or the program exits); the files stay.
crash ==
  /\ mpc # "closed"
  /\ mpc' = "closed"
  /\ mcur' = None
  /\ mret' = <<"Crash", mpc>>
  /\ UNCHANGED <<log_file, log_partial, tmp_file, db, nMemIds, nMemOps>>
  /\ UNCHANGED agentvars

Written == {"line", "none", "text"}

\* The store on its own: the files do not exist yet and no process runs.
MemInit ==
  /\ config = DefaultToolConfig
  /\ memories = FALSE
  /\ history = <<>>
  /\ pending_tool_call = None
  /\ lock = [provider |-> NoCaller, config |-> NoCaller, tools |-> NoCaller]
  /\ pc = [c \in Callers |-> "idle"]
  /\ op = [c \in Callers |-> "none"]
  /\ req = [c \in Callers |-> <<>>]
  /\ batch = [c \in Callers |-> <<>>]
  /\ idx = [c \in Callers |-> 0]
  /\ cur = [c \in Callers |-> None]
  /\ arg = [c \in Callers |-> None]
  /\ ret = [c \in Callers |-> None]
  /\ nChats = 0
  /\ nBackend = 0
  /\ nextId = 0
  /\ lastRequest = None
  /\ invoked = <<>>
  /\ approved = {}
  /\ NoStore
  /\ mpc = "closed"
  /\ NoCheck
  /\ NoTasks
  /\ NoLocks
  /\ NoTurn

MemNext ==
  \/ MemoryManager_new
  \/ \E c \in Contents, s \in Summaries, w \in Written : add_memory(c, s, w)
  \/ \E d \in BOOLEAN : add_index(d)
  \/ \E i \in 1..nMemIds, w \in Written : forget_memory(i, w)
  \/ \E d \in BOOLEAN : forget_index(d)
  \/ \E q \in Queries, l \in Limits : memory_search(q, l)
  \/ \E d \in BOOLEAN : compact(d)
  \/ \E d \in BOOLEAN : compact_rename(d)
  \/ crash

MemSpec == MemInit /\ [][MemNext /\ UNCHANGED <<checkvars, taskvars, lockvars, turnvars>>]_vars

\* -------------------------------------------- check_shell_security alone
\* The policies a config.yaml can state: block nothing, the default block
\* list or one entry; allow everything (empty list), the default list, or
\* one entry, which may also be a blocked one.
PolicyConfigs ==
  {[DefaultToolConfig EXCEPT !.blocked_shell_commands = b, !.allowed_shell_commands = a] :
     b \in {<<>>, DefaultToolConfig.blocked_shell_commands, <<"rm">>},
     a \in {<<>>, DefaultToolConfig.allowed_shell_commands, <<"cat">>, <<"ls">>, <<"rm">>}}

\* The parsed arguments of a shell call: a command, or none.
ShellArguments ==
  {<<"command", cmd>> : cmd \in {"ls", "cat", "mv", "foo", "rm -rf /", "ls; rm x"}}
  \cup {<<"path", "f">>, <<>>}

\* The agent with nothing under way, as the function does not look at it.
AgentAtRest ==
  /\ memories = FALSE
  /\ history = <<>>
  /\ pending_tool_call = None
  /\ lock = [provider |-> NoCaller, config |-> NoCaller, tools |-> NoCaller]
  /\ pc = [c \in Callers |-> "idle"]
  /\ op = [c \in Callers |-> "none"]
  /\ req = [c \in Callers |-> <<>>]
  /\ batch = [c \in Callers |-> <<>>]
  /\ idx = [c \in Callers |-> 0]
  /\ cur = [c \in Callers |-> None]
  /\ arg = [c \in Callers |-> None]
  /\ ret = [c \in Callers |-> None]
  /\ nChats = 0
  /\ nBackend = 0
  /\ nextId = 0
  /\ lastRequest = None
  /\ invoked = <<>>
  /\ approved = {}

CheckInit ==
  /\ config \in PolicyConfigs
  /\ AgentAtRest
  /\ NoStore
  /\ mpc = "closed"
  /\ NoCheck
  /\ NoTasks
  /\ NoLocks
  /\ NoTurn

\* One call Self::check_shell_security(&config, &arguments).
call_check_shell_security(arguments) ==
  /\ sec_arguments' = Some(arguments)
  /\ sec_result' = Some(check_shell_security(config, arguments))
  /\ UNCHANGED <<agentvars, storevars, taskvars, lockvars, turnvars>>

CheckNext == \E a \in ShellArguments : call_check_shell_security(a)

CheckSpec == CheckInit /\ [][CheckNext]_vars

\* ------------------------------------- the task stack and autonomous loop
\* The ids push may generate.
MaxTasks == 4

\* The calls of clear_completed.
MaxClears == 1

\* TaskStatus: three unit variants and Failed(String).
Pending == <<"Pending">>

InProgress == <<"InProgress">>

Completed == <<"Completed">>

Failed(text) == <<"Failed", text>>

\* The texts a caller gives a Failed status.
FailedTexts == {"Cancelled by user", "cancelled"}

TaskStatus == {Pending, InProgress, Completed} \cup {Failed(text) : text \in FailedTexts}

\* A Task; its description and created_at play no part in any operation.
Task(tid, st) == [id |-> tid, status |-> st]

\* TaskStack::push: the new task goes to the end, Pending.
push(ts, tid) == Append(ts, Task(tid, Pending))

\* iter().position(|t| t.status == Pending): the first such index, or none.
position_Pending(ts) ==
  IF \E i \in DOMAIN ts : ts[i].status = Pending
    THEN Some(CHOOSE i \in DOMAIN ts :
                /\ ts[i].status = Pending
                /\ \A j \in 1..(i - 1) : ts[j].status # Pending)
    ELSE None

\* Vec::remove(idx): the element leaves, the later ones shift down.
remove(ts, i) == SubSeq(ts, 1, i - 1) \o SubSeq(ts, i + 1, Len(ts))

\* pop that takes the Pending task pushed last.
pop_Last(ts) ==
  IF \E i \in DOMAIN ts : ts[i].status = Pending
    THEN LET i == CHOOSE i \in DOMAIN ts :
                    /\ ts[i].status = Pending
                    /\ \A j \in (i + 1)..Len(ts) : ts[j].status # Pending
         IN  [task |-> Some(ts[i]), tasks |-> remove(ts, i)]
    ELSE [task |-> None, tasks |-> ts]

\* TaskStack::pop: the first Pending task is removed from the Vec and
\* returned; None, and the Vec as it was, when there is none.
pop(ts) ==
  LET pos == position_Pending(ts)
  IN  IF IsNone(pos) THEN [task |-> None, tasks |-> ts]
      ELSE [task |-> Some(ts[Unwrap(pos)]), tasks |-> remove(ts, Unwrap(pos))]

\* TaskStack::peek.
peek(ts) ==
  LET pos == position_Pending(ts)
  IN  IF IsNone(pos) THEN None ELSE Some(ts[Unwrap(pos)])

\* TaskStack::update_status: the task with this id, if any, gets the status.
update_status(ts, tid, st) ==
  [i \in DOMAIN ts |-> IF ts[i].id = tid THEN [ts[i] EXCEPT !.status = st] ELSE ts[i]]

\* cancel_task that writes the text "cancelled".
cancel_task_Cancelled(ts, tid) == update_status(ts, tid, Failed("cancelled"))

\* TaskStack::cancel_task.
cancel_task(ts, tid) == update_status(ts, tid, Failed("Cancelled by user"))

\* matches!(t.status, Pending | InProgress)
retained(t) == t.status \in {Pending, InProgress}

\* clear_completed that keeps the Pending tasks only.
clear_completed_PendingOnly(ts) ==
  LET pending(t) == t.status = Pending IN SelectSeq(ts, pending)

\* TaskStack::clear_completed: retain.
clear_completed(ts) == SelectSeq(ts, retained)

\* What the operations on the task stack leave alone.
nontask == <<agentvars, storevars, checkvars, lockvars, turnvars>>

\* The TUI's /task: the spawned task pushes the task and enters
\* run_autonomous_loop. A loop that has returned leaves its place to the next.
tui_task(lp) ==
  /\ lpc[lp] \in {"off", "done"}
  /\ nTaskIds < MaxTasks
  /\ nTaskIds' = nTaskIds + 1
  /\ tasks' = push(tasks, nTaskIds + 1)
  /\ lpc' = [lpc EXCEPT ![lp] = "poll"]
  /\ lret' = [lret EXCEPT ![lp] = None]
  /\ UNCHANGED <<paused, ltask, ran, nClears, nontask>>

\* The TUI's /pause.
tui_pause ==
  /\ paused' = TRUE
  /\ UNCHANGED <<tasks, lpc, ltask, lret, nTaskIds, ran, nClears, nontask>>

\* The TUI's /resume.
tui_resume ==
  /\ paused' = FALSE
  /\ UNCHANGED <<tasks, lpc, ltask, lret, nTaskIds, ran, nClears, nontask>>

\* The loop that pops whatever the flag says.
loop_poll_IgnoresPause(lp) ==
  /\ lpc[lp] = "poll"
  /\ lpc' = [lpc EXCEPT ![lp] = "pop"]
  /\ UNCHANGED <<tasks, paused, ltask, lret, nTaskIds, ran, nClears, nontask>>

\* run_autonomous_loop, top of an iteration: read the flag; paused, sleep.
loop_poll(lp) ==
  /\ lpc[lp] = "poll"
  /\ lpc' = [lpc EXCEPT ![lp] = IF paused THEN "sleep" ELSE "pop"]
  /\ UNCHANGED <<tasks, paused, ltask, lret, nTaskIds, ran, nClears, nontask>>

\* The 500 ms sleep ends; `continue`.
loop_wake(lp) ==
  /\ lpc[lp] = "sleep"
  /\ lpc' = [lpc EXCEPT ![lp] = "poll"]
  /\ UNCHANGED <<tasks, paused, ltask, lret, nTaskIds, ran, nClears, nontask>>

\* The loop that goes round again when pop finds nothing.
loop_pop_Spins(lp) ==
  /\ lpc[lp] = "pop"
  /\ LET r == pop(tasks)
     IN  IF IsNone(r.task)
           THEN /\ lpc' = [lpc EXCEPT ![lp] = "poll"]
                /\ UNCHANGED <<tasks, ltask, lret, ran>>
           ELSE /\ tasks' = r.tasks
                /\ ltask' = [ltask EXCEPT ![lp] = r.task]
                /\ ran' = Append(ran, Unwrap(r.task).id)
                /\ lpc' = [lpc EXCEPT ![lp] = "chat"]
                /\ UNCHANGED lret
  /\ UNCHANGED <<paused, nTaskIds, nClears, nontask>>

\* The loop whose pop leaves the task it returns in the stack.
loop_pop_Leaves(lp) ==
  /\ lpc[lp] = "pop"
  /\ LET r == pop(tasks)
     IN  IF IsNone(r.task)
           THEN /\ lpc' = [lpc EXCEPT ![lp] = "done"]
                /\ lret' = [lret EXCEPT ![lp] = Some("Ok")]
                /\ UNCHANGED <<tasks, ltask, ran>>
           ELSE /\ ltask' = [ltask EXCEPT ![lp] = r.task]
                /\ ran' = Append(ran, Unwrap(r.task).id)
                /\ lpc' = [lpc EXCEPT ![lp] = "chat"]
                /\ UNCHANGED <<tasks, lret>>
  /\ UNCHANGED <<paused, nTaskIds, nClears, nontask>>

\* stack.pop(): None breaks the loop, which returns Ok(()); a task starts
\* chat(prompt).
loop_pop(lp) ==
  /\ lpc[lp] = "pop"
  /\ LET r == pop(tasks)
     IN  IF IsNone(r.task)
           THEN /\ lpc' = [lpc EXCEPT ![lp] = "done"]
                /\ lret' = [lret EXCEPT ![lp] = Some("Ok")]
                /\ UNCHANGED <<tasks, ltask, ran>>
           ELSE /\ tasks' = r.tasks
                /\ ltask' = [ltask EXCEPT ![lp] = r.task]
                /\ ran' = Append(ran, Unwrap(r.task).id)
                /\ lpc' = [lpc EXCEPT ![lp] = "chat"]
                /\ UNCHANGED lret
  /\ UNCHANGED <<paused, nTaskIds, nClears, nontask>>

\* PushTask::call, run by a tool call of the chat in flight.
push_task(lp) ==
  /\ lpc[lp] = "chat"
  /\ nTaskIds < MaxTasks
  /\ nTaskIds' = nTaskIds + 1
  /\ tasks' = push(tasks, nTaskIds + 1)
  /\ UNCHANGED <<paused, lpc, ltask, lret, ran, nClears, nontask>>

\* self.chat(prompt).await?: Ok goes round the loop, Err leaves it.
loop_chat_returns(lp, result) ==
  /\ lpc[lp] = "chat"
  /\ ltask' = [ltask EXCEPT ![lp] = None]
  /\ IF result = "Ok"
       THEN /\ lpc' = [lpc EXCEPT ![lp] = "poll"]
            /\ UNCHANGED lret
       ELSE /\ lpc' = [lpc EXCEPT ![lp] = "done"]
            /\ lret' = [lret EXCEPT ![lp] = Some("Err")]
  /\ UNCHANGED <<tasks, paused, nTaskIds, ran, nClears, nontask>>

\* A holder of the task stack calls cancel_task(id).
call_cancel_task(tid) ==
  /\ tasks' = cancel_task(tasks, tid)
  /\ UNCHANGED <<paused, lpc, ltask, lret, nTaskIds, ran, nClears, nontask>>

\* A holder of the task stack calls update_status(id, status).
call_update_status(tid, st) ==
  /\ tasks' = update_status(tasks, tid, st)
  /\ UNCHANGED <<paused, lpc, ltask, lret, nTaskIds, ran, nClears, nontask>>

\* A holder of the task stack calls clear_completed().
call_clear_completed ==
  /\ nClears < MaxClears
  /\ nClears' = nClears + 1
  /\ tasks' = clear_completed(tasks)
  /\ UNCHANGED <<paused, lpc, ltask, lret, nTaskIds, ran, nontask>>

TaskInit ==
  /\ config = DefaultToolConfig
  /\ AgentAtRest
  /\ NoStore
  /\ mpc = "closed"
  /\ NoCheck
  /\ NoTasks
  /\ NoLocks
  /\ NoTurn

TaskNext ==
  \/ \E lp \in Loops : tui_task(lp)
  \/ tui_pause
  \/ tui_resume
  \/ \E lp \in Loops : loop_poll(lp)
  \/ \E lp \in Loops : loop_wake(lp)
  \/ \E lp \in Loops : loop_pop(lp)
  \/ \E lp \in Loops : push_task(lp)
  \/ \E lp \in Loops, result \in {"Ok", "Err"} : loop_chat_returns(lp, result)
  \/ \E tid \in 1..nTaskIds : call_cancel_task(tid)
  \/ \E tid \in 1..nTaskIds, st \in TaskStatus : call_update_status(tid, st)
  \/ call_clear_completed

TaskSpec == TaskInit /\ [][TaskNext]_vars

\* The runtime runs a loop that can take its next step, and a chat() that
\* has been started returns.
FairTaskSpec ==
  /\ TaskSpec
  /\ \A lp \in Loops :
       /\ WF_vars(loop_poll(lp))
       /\ WF_vars(loop_wake(lp))
       /\ WF_vars(loop_pop(lp))
       /\ WF_vars(\E result \in {"Ok", "Err"} : loop_chat_returns(lp, result))

\* --------------------------------------- several loops on one task stack
\* The loops two /task commands leave running side by side.
MaxPool == 2

Pool == 1..MaxPool

PoolInit ==
  /\ config = DefaultToolConfig
  /\ AgentAtRest
  /\ NoStore
  /\ mpc = "closed"
  /\ NoCheck
  /\ tasks = <<>>
  /\ paused = FALSE
  /\ lpc = [lp \in Pool |-> "off"]
  /\ ltask = [lp \in Pool |-> None]
  /\ lret = [lp \in Pool |-> None]
  /\ nTaskIds = 0
  /\ ran = <<>>
  /\ nClears = 0
  /\ NoLocks
  /\ NoTurn

PoolNext ==
  \/ \E lp \in Pool : tui_task(lp)
  \/ tui_pause
  \/ tui_resume
  \/ \E lp \in Pool : loop_poll(lp)
  \/ \E lp \in Pool : loop_wake(lp)
  \/ \E lp \in Pool : loop_pop(lp)
  \/ \E lp \in Pool : push_task(lp)
  \/ \E lp \in Pool, result \in {"Ok", "Err"} : loop_chat_returns(lp, result)
  \/ \E tid \in 1..nTaskIds : call_cancel_task(tid)
  \/ \E tid \in 1..nTaskIds, st \in TaskStatus : call_update_status(tid, st)
  \/ call_clear_completed

PoolSpec == PoolInit /\ [][PoolNext]_vars

\* ------------------------------------------------- the Agent's mutexes
\* Every lock().await of the Agent's operations, of the registered tools and
\* of the TUI: <<the site that waits, the mutex, the site once it is held>>.
Acquisitions ==
  { <<"chat:memory", "memory", "chat:search">>,                 \* lib.rs 276
    <<"chat:state", "state", "chat:push">>,                     \* 281
    <<"ci:state", "state", "ci:tools">>,                        \* 311
    <<"ci:tools", "tools", "ci:snapshot">>,                     \* 312, state held
    <<"ci:provider", "provider", "ci:await">>,                  \* 325
    <<"ci:assistant", "state", "ci:assistant_push">>,           \* 330
    <<"ci:config", "config", "ci:gate">>,                       \* 341
    <<"ci:pending", "pending_tool_call", "ci:pending_set">>,    \* 347, config held
    <<"ci:refuse", "state", "ci:refuse_push">>,                 \* 365, config held
    <<"ci:call_tools", "tools", "ci:call">>,                    \* 377, config held
    <<"ci:task_stack", "task_stack", "ci:task_push">>,          \* tools.rs 122
    <<"ci:result", "state", "ci:result_push">>,                 \* 385, config held
    <<"ap:pending", "pending_tool_call", "ap:take">>,           \* 210
    <<"ap:config", "config", "ap:check">>,                      \* 216
    <<"ap:tools", "tools", "ap:call">>,                         \* 223
    <<"ap:task_stack", "task_stack", "ap:task_push">>,          \* tools.rs 122
    <<"ap:state", "state", "ap:push">>,                         \* 232
    <<"rj:pending", "pending_tool_call", "rj:take">>,           \* 249
    <<"rj:state", "state", "rj:push">>,                         \* 255
    <<"sw:config", "config", "sw:create">>,                     \* 185
    <<"sw:provider", "provider", "sw:set">>,                    \* 188, config held
    <<"task:stack", "task_stack", "task:push">>,                \* tui lib.rs 322
    <<"al:paused", "paused", "al:read">>,                       \* 431
    <<"al:stack", "task_stack", "al:pop">>,                     \* 440
    <<"tui:stack", "task_stack", "tui:paused">>,                \* tui lib.rs 83
    <<"tui:paused", "paused", "tui:frame">>,                    \* 84, stack held
    <<"tui:flag", "paused", "tui:set">>,                        \* 269, 276
    <<"tui:config", "config", "tui:tab">> }                     \* 230

\* The operations a task may run, and the site each starts at.
Operations ==
  { <<"chat", "chat:memory">>,
    <<"approve_tool_call", "ap:pending">>,
    <<"reject_tool_call", "rj:pending">>,
    <<"switch_model", "sw:config">>,
    <<"run_autonomous_loop", "task:stack">>,
    <<"run_loop", "tui:stack">> }

\* What the operations on the mutexes leave alone.
nonlock == <<agentvars, storevars, checkvars, taskvars, turnvars>>

\* Task p moves to site `next`, the guards of the mutexes ks dropped.
Drop(p, ks, next) ==
  /\ mutex' = [k \in Locks |-> IF k \in ks THEN 0 ELSE mutex[k]]
  /\ site' = [site EXCEPT ![p] = next]
  /\ UNCHANGED <<opk, nonlock>>

\* Task p's operation returns, the guards of the mutexes ks dropped. A
\* chat() run by run_autonomous_loop that returns Ok goes round the loop.
Return(p, ks, ok) ==
  /\ mutex' = [k \in Locks |-> IF k \in ks THEN 0 ELSE mutex[k]]
  /\ IF ok /\ opk[p] = "run_autonomous_loop" /\ site[p] \notin {"al:pop"}
       THEN site' = [site EXCEPT ![p] = "al:paused"] /\ UNCHANGED opk
       ELSE site' = [site EXCEPT ![p] = "idle"] /\ opk' = [opk EXCEPT ![p] = "none"]
  /\ UNCHANGED nonlock

\* A task is spawned for an operation, or the TUI starts a frame.
start(p, o) ==
  /\ site[p] = "idle"
  /\ site' = [site EXCEPT ![p] = o[2]]
  /\ opk' = [opk EXCEPT ![p] = o[1]]
  /\ UNCHANGED <<mutex, nonlock>>

\* lock().await returns: the mutex was free and is p's now.
acquire(p) ==
  \E a \in Acquisitions :
    /\ site[p] = a[1]
    /\ mutex[a[2]] = 0
    /\ mutex' = [mutex EXCEPT ![a[2]] = p]
    /\ site' = [site EXCEPT ![p] = a[3]]
    /\ UNCHANGED <<opk, nonlock>>

\* chat, 275-278: memory.search(..)? and the block's end.
chat_search(p, ok) ==
  /\ site[p] = "chat:search"
  /\ IF ok THEN Drop(p, {"memory"}, "chat:state") ELSE Return(p, {"memory"}, FALSE)

\* chat, 280-301: the System and User messages are pushed.
chat_push(p) ==
  /\ site[p] = "chat:push"
  /\ Drop(p, {"state"}, "ci:state")

\* chat_internal, 310-314: history and definitions are cloned.
ci_snapshot(p) ==
  /\ site[p] = "ci:snapshot"
  /\ Drop(p, {"state", "tools"}, "ci:provider")

\* chat_internal, 326-327: chat_completion(request).await? under the
\* provider's guard.
ci_completion(p, ok) ==
  /\ site[p] = "ci:await"
  /\ IF ok THEN Drop(p, {"provider"}, "ci:assistant") ELSE Return(p, {"provider"}, FALSE)

\* chat_internal, 329-339 and 396-402: the Assistant message is pushed; a
\* response without tool calls is the final one.
ci_assistant_push(p, calls) ==
  /\ site[p] = "ci:assistant_push"
  /\ IF calls THEN Drop(p, {"state"}, "ci:config") ELSE Return(p, {"state"}, TRUE)

\* chat_internal, 342-344.
ci_gate(p, require_approval) ==
  /\ site[p] = "ci:gate"
  /\ Drop(p, {}, IF require_approval THEN "ci:pending" ELSE "ci:for")

\* chat_internal, 347-354: the pending call is recorded (or its arguments
\* do not parse) and the operation returns.
ci_pending_set(p, ok) ==
  /\ site[p] = "ci:pending_set"
  /\ Return(p, {"config", "pending_tool_call"}, ok)

\* chat_internal, 357-393: the next tool call of the batch, if any; its
\* arguments may not parse, shell may be refused.
ci_for(p, what) ==
  /\ site[p] = "ci:for"
  /\ CASE what = "end" -> Drop(p, {"config"}, "ci:state")
       [] what = "parse_error" -> Return(p, {"config"}, FALSE)
       [] what = "refused" -> Drop(p, {}, "ci:refuse")
       [] what = "call" -> Drop(p, {}, "ci:call_tools")

\* chat_internal, 365-372.
ci_refuse_push(p) ==
  /\ site[p] = "ci:refuse_push"
  /\ Drop(p, {"state"}, "ci:for")

\* chat_internal, 378-382: the tool is looked up and called. PushTask::call
\* goes on to lock the task stack, or fails on its arguments before that.
ci_call(p, tool) ==
  /\ site[p] = "ci:call"
  /\ CASE tool = "unknown" -> Drop(p, {"tools"}, "ci:result")
       [] tool = "push_task" -> Drop(p, {}, "ci:task_stack")
       [] tool = "other" -> Drop(p, {}, "ci:tool_await")

\* PushTask::call, 122-124, and the end of the block at 383.
ci_task_push(p) ==
  /\ site[p] = "ci:task_push"
  /\ Drop(p, {"task_stack", "tools"}, "ci:result")

\* A tool that goes on holding the registry after its call.
ci_tool_returns_KeepsTools(p, ok) ==
  /\ site[p] = "ci:tool_await"
  /\ IF ok THEN Drop(p, {}, "ci:result") ELSE Return(p, {"config", "tools"}, FALSE)

\* chat_internal, 379: tool.call(arguments).await? returns.
ci_tool_returns(p, ok) ==
  /\ site[p] = "ci:tool_await"
  /\ IF ok THEN Drop(p, {"tools"}, "ci:result") ELSE Return(p, {"config", "tools"}, FALSE)

\* chat_internal, 385-391.
ci_result_push(p) ==
  /\ site[p] = "ci:result_push"
  /\ Drop(p, {"state"}, "ci:for")

\* approve_tool_call, 209-215 and 242-244: p.take().
ap_take(p, what) ==
  /\ site[p] = "ap:take"
  /\ CASE what = "none" -> Return(p, {"pending_tool_call"}, FALSE)
       [] what = "shell" -> Drop(p, {"pending_tool_call"}, "ap:config")
       [] what = "other" -> Drop(p, {"pending_tool_call"}, "ap:tools")

\* approve_tool_call, 216-220.
ap_check(p, ok) ==
  /\ site[p] = "ap:check"
  /\ IF ok THEN Drop(p, {"config"}, "ap:tools") ELSE Return(p, {"config"}, FALSE)

\* approve_tool_call, 224-228.
ap_call(p, tool) ==
  /\ site[p] = "ap:call"
  /\ CASE tool = "unknown" -> Drop(p, {"tools"}, "ap:state")
       [] tool = "push_task" -> Drop(p, {}, "ap:task_stack")
       [] tool = "other" -> Drop(p, {}, "ap:tool_await")

\* PushTask::call under approve_tool_call.
ap_task_push(p) ==
  /\ site[p] = "ap:task_push"
  /\ Drop(p, {"task_stack", "tools"}, "ap:state")

\* approve_tool_call, 225.
ap_tool_returns(p, ok) ==
  /\ site[p] = "ap:tool_await"
  /\ IF ok THEN Drop(p, {"tools"}, "ap:state") ELSE Return(p, {"tools"}, FALSE)

\* approve_tool_call, 231-241.
ap_push(p) ==
  /\ site[p] = "ap:push"
  /\ Drop(p, {"state"}, "ci:state")

\* reject_tool_call, 248-253 and 265-267.
rj_take(p, some) ==
  /\ site[p] = "rj:take"
  /\ IF some THEN Drop(p, {"pending_tool_call"}, "rj:state")
     ELSE Return(p, {"pending_tool_call"}, FALSE)

\* reject_tool_call, 254-264.
rj_push(p) ==
  /\ site[p] = "rj:push"
  /\ Drop(p, {"state"}, "ci:state")

\* switch_model, 186: create_provider(..)? under the config's guard.
sw_create(p, ok) ==
  /\ site[p] = "sw:create"
  /\ IF ok THEN Drop(p, {}, "sw:provider") ELSE Return(p, {"config"}, FALSE)

\* switch_model, 189-190.
sw_set(p) ==
  /\ site[p] = "sw:set"
  /\ Return(p, {"config", "provider"}, TRUE)

\* The task spawned by /task, tui lib.rs 321-326.
task_push(p) ==
  /\ site[p] = "task:push"
  /\ Drop(p, {"task_stack"}, "al:paused")

\* run_autonomous_loop, 432-437.
al_read(p, flag) ==
  /\ site[p] = "al:read"
  /\ Drop(p, {"paused"}, IF flag THEN "al:sleep" ELSE "al:stack")

\* run_autonomous_loop, 434-435.
al_wake(p) ==
  /\ site[p] = "al:sleep"
  /\ Drop(p, {}, "al:paused")

\* run_autonomous_loop, 441-447.
al_pop(p, some) ==
  /\ site[p] = "al:pop"
  /\ IF some THEN Drop(p, {"task_stack"}, "chat:memory")
     ELSE Return(p, {"task_stack"}, TRUE)

\* run_loop, 82-86 and the key event that follows the frame.
tui_frame(p, ev) ==
  /\ site[p] = "tui:frame"
  /\ CASE ev = "none" -> Return(p, {"task_stack", "paused"}, TRUE)
       [] ev = "flag" -> Drop(p, {"task_stack", "paused"}, "tui:flag")
       [] ev = "tab" -> Drop(p, {"task_stack", "paused"}, "tui:config")

\* run_loop, 268-280: /pause or /resume.
tui_set(p) ==
  /\ site[p] = "tui:set"
  /\ Return(p, {"paused"}, TRUE)

\* run_loop, 228-238: completion of a model name.
tui_tab(p) ==
  /\ site[p] = "tui:tab"
  /\ Return(p, {"config"}, TRUE)

LockInit ==
  /\ config = DefaultToolConfig
  /\ AgentAtRest
  /\ NoStore
  /\ mpc = "closed"
  /\ NoCheck
  /\ NoTasks
  /\ NoLocks
  /\ NoTurn

LockNext ==
  \E p \in Procs :
    \/ \E o \in Operations : start(p, o)
    \/ acquire(p)
    \/ \E ok \in BOOLEAN : chat_search(p, ok)
    \/ chat_push(p)
    \/ ci_snapshot(p)
    \/ \E ok \in BOOLEAN : ci_completion(p, ok)
    \/ \E calls \in BOOLEAN : ci_assistant_push(p, calls)
    \/ \E require_approval \in BOOLEAN : ci_gate(p, require_approval)
    \/ \E ok \in BOOLEAN : ci_pending_set(p, ok)
    \/ \E what \in {"end", "parse_error", "refused", "call"} : ci_for(p, what)
    \/ ci_refuse_push(p)
    \/ \E tool \in {"unknown", "push_task", "other"} : ci_call(p, tool)
    \/ ci_task_push(p)
    \/ \E ok \in BOOLEAN : ci_tool_returns(p, ok)
    \/ ci_result_push(p)
    \/ \E what \in {"none", "shell", "other"} : ap_take(p, what)
    \/ \E ok \in BOOLEAN : ap_check(p, ok)
    \/ \E tool \in {"unknown", "push_task", "other"} : ap_call(p, tool)
    \/ ap_task_push(p)
    \/ \E ok \in BOOLEAN : ap_tool_returns(p, ok)
    \/ ap_push(p)
    \/ \E some \in BOOLEAN : rj_take(p, some)
    \/ rj_push(p)
    \/ \E ok \in BOOLEAN : sw_create(p, ok)
    \/ sw_set(p)
    \/ task_push(p)
    \/ \E flag \in BOOLEAN : al_read(p, flag)
    \/ al_wake(p)
    \/ \E some \in BOOLEAN : al_pop(p, some)
    \/ \E ev \in {"none", "flag", "tab"} : tui_frame(p, ev)
    \/ tui_set(p)
    \/ tui_tab(p)

LockSpec == LockInit /\ [][LockNext]_vars

\* ------------------------------------------------------ derived notions
Range(f) == {f[i] : i \in DOMAIN f}

\* The positions of the Tool messages of msgs that answer call `id`.
ToolAnswers(msgs, id) ==
  {j \in DOMAIN msgs : msgs[j].role = "Tool" /\ msgs[j].tool_call_id = <<id>>}

\* The ids of the tool calls of message m.
CallIds(m) ==
  IF m.role = "Assistant" /\ Len(m.tool_calls) > 0
    THEN {m.tool_calls[1][k].id : k \in DOMAIN m.tool_calls[1]}
    ELSE {}

\* Every tool call of the Assistant message at position i has a later Tool
\* message with its id.
SatisfiedAt(msgs, i) ==
  \A id \in CallIds(msgs[i]) : \E j \in ToolAnswers(msgs, id) : j > i

AllSatisfied(msgs) == \A i \in DOMAIN msgs : SatisfiedAt(msgs, i)

\* The ids of the batch (Assistant message) that holds call `id`.
BatchIdsOf(msgs, id) ==
  UNION {CallIds(msgs[i]) : i \in {k \in DOMAIN msgs : id \in CallIds(msgs[k])}}

\* The positions in the sequence of Tool::call invocations made for call `id`.
Invocations(inv, id) == {i \in DOMAIN inv : inv[i].id = id}

InApprove == {"ap_check", "ap_tool", "ap_toolwait"}
InChatInternal == {"ci_snapshot", "ci_send", "ci_await", "ci_gate", "ci_tool", "ci_toolwait"}

\* --------------------------------------------------------------------- C1
\* C1: no request sent to the backend contains an Assistant message with
\* tool calls unless every one of its call ids has a matching later Tool
\* message in that same request.
C1_SatisfactionInvariant ==
  Len(lastRequest) > 0 => AllSatisfied(lastRequest[1])

\* --------------------------------------------------------------------- C2
\* C2: when require_approval is true and the response carries tool calls,
\* chat_internal leaves the gate by returning "WAITING_FOR_APPROVAL" with
\* the first call recorded as pending (id, tool name, parsed arguments), and
\* by then no call of the batch has been executed or answered.
C2_ApprovalGating ==
  [][\A c \in Callers :
       (pc[c] = "ci_gate" /\ config.require_approval /\ pc'[c] # "ci_gate")
       => /\ ret'[c] = <<"Ok", "WAITING_FOR_APPROVAL">>
          /\ Len(pending_tool_call') = 1
          /\ pending_tool_call'[1].id = batch[c][1].id
          /\ pending_tool_call'[1].tool_name = batch[c][1].name
          /\ from_str(batch[c][1].arguments) = <<pending_tool_call'[1].arguments>>
          /\ \A k \in DOMAIN batch[c] :
               /\ Invocations(invoked', batch[c][k].id) = {}
               /\ ToolAnswers(history', batch[c][k].id) = {}]_vars

\* --------------------------------------------------------------------- C3
\* C3: approve_tool_call with a pending call leaves its own body only by
\* resuming the turn loop, with exactly one Tool message for the pending id
\* in history, the call executed at most once, and the pending slot no
\* longer holding it.
C3_ApproveResolves ==
  [][\A c \in Callers :
       (pc[c] \in InApprove /\ pc'[c] \notin InApprove)
       => /\ pc'[c] = "ci_snapshot"
          /\ Cardinality(ToolAnswers(history', cur[c][1].id)) = 1
          /\ Cardinality(Invocations(invoked', cur[c][1].id)) <= 1
          /\ pending_tool_call' # cur[c]]_vars

\* --------------------------------------------------------------------- C4
IsRejection(m) ==
  /\ m.role = "Tool"
  /\ Len(m.content[1]) = 4
  /\ SubSeq(m.content[1], 1, 3) = <<"error", "User rejected tool execution", "reason">>

\* C4: a rejected call is never invoked and has exactly one Tool message;
\* while reject_tool_call runs, that message carries the error text and the
\* given reason, the pending slot no longer holds the call, the caller is
\* in the turn loop, and the request it sends includes the message.
C4_RejectResolves ==
  /\ \A j \in DOMAIN history :
       IsRejection(history[j])
       => /\ Invocations(invoked, history[j].tool_call_id[1]) = {}
          /\ Cardinality(ToolAnswers(history, history[j].tool_call_id[1])) = 1
  /\ \A c \in Callers :
       op[c] = "reject"
       => /\ pc[c] \in InChatInternal
          /\ pending_tool_call # cur[c]
          /\ \E j \in ToolAnswers(history, cur[c][1].id) :
               history[j].content =
                 << <<"error", "User rejected tool execution", "reason", arg[c][1]>> >>
          /\ pc[c] \in {"ci_send", "ci_await"}
               => ToolAnswers(req[c], cur[c][1].id) # {}

\* A caller has rejected a pending call and its resumed turn has sent the
\* next request to the backend.
C4_Witness ==
  \E c \in Callers : op[c] = "reject" /\ pc[c] = "ci_await" /\ arg[c] = <<"unsafe">>

\* --------------------------------------------------------------------- C5
\* C5: while a pending approval exists no backend request is issued, and
\* the pending approval changes only by being taken by approve or reject.
C5_OnePendingAtATime ==
  [][Len(pending_tool_call) > 0
       => /\ nBackend' = nBackend
          /\ \/ pending_tool_call' = pending_tool_call
             \/ /\ pending_tool_call' = <<>>
                /\ \E c \in Callers :
                     op[c] = "none" /\ op'[c] \in {"approve", "reject"}]_vars

\* --------------------------------------------------------------------- C6
\* C6: a turn resumed by approve or reject calls the backend only once
\* every call of the batch the resolved call belongs to has a Tool message.
C6_BatchResolvedBeforeBackend ==
  \A c \in Callers :
    (op[c] \in {"approve", "reject"} /\ pc[c] = "ci_await")
    => \A id \in BatchIdsOf(history, cur[c][1].id) : ToolAnswers(req[c], id) # {}

BeingProcessed(ids) ==
  \E c \in Callers :
    /\ pc[c] \in {"ci_gate", "ci_tool", "ci_toolwait"}
    /\ {batch[c][k].id : k \in DOMAIN batch[c]} = ids

\* The Tool messages and the invocations of a batch follow the order of its
\* calls, at most one Tool message per call.
BatchInOrder(calls) ==
  \A k \in DOMAIN calls :
    /\ Cardinality(ToolAnswers(history, calls[k].id)) <= 1
    /\ \A l \in DOMAIN calls :
         k < l => /\ \A a \in ToolAnswers(history, calls[k].id),
                        b \in ToolAnswers(history, calls[l].id) : a < b
                  /\ \A a \in Invocations(invoked, calls[k].id),
                        b \in Invocations(invoked, calls[l].id) : a < b
                  /\ ToolAnswers(history, calls[l].id) # {}
                       => ToolAnswers(history, calls[k].id) # {}

\* C8: without approval, the calls of a batch are run in array order and
\* their Tool messages appear in that order, one Tool message per call once
\* the batch has been worked through.
C8_SequentialExecution ==
  ~config.require_approval
  => \A i \in DOMAIN history :
       HasToolCalls(history[i])
       => /\ BatchInOrder(history[i].tool_calls[1])
          /\ ~BeingProcessed(CallIds(history[i]))
               => \A id \in CallIds(history[i]) : ToolAnswers(history, id) # {}

\* The ordering half of C8 alone.
C8_OrderOnly ==
  ~config.require_approval
  => \A i \in DOMAIN history :
       HasToolCalls(history[i]) => BatchInOrder(history[i].tool_calls[1])

\* --------------------------------------------------------------------- C9
\* C9: when a tool's call() returns, failed or not, a Tool message with the
\* call's id is appended and the operation goes on instead of returning.
C9_ToolFailureAbsorbed ==
  [][\A c \in Callers :
       (pc[c] \in {"ci_toolwait", "ap_toolwait"} /\ pc'[c] # pc[c])
       => LET id == IF pc[c] = "ci_toolwait" THEN batch[c][idx[c]].id
                                             ELSE cur[c][1].id
          IN  /\ ToolAnswers(history', id) # {}
              /\ pc'[c] # "idle"]_vars

\* -------------------------------------------------------------------- C10
\* The policy as the configuration states it: no command, a blocked
\* string in the command, or a non-empty allow-list none of whose entries
\* occurs in the command.
PolicyRefuses(cfg, value) ==
  \/ ~(Len(value) = 2 /\ value[1] = "command")
  \/ \E b \in Range(cfg.blocked_shell_commands) : Contains(value[2], b)
  \/ /\ cfg.allowed_shell_commands # <<>>
     /\ \A a \in Range(cfg.allowed_shell_commands) : ~Contains(value[2], a)

\* C10: the shell tool is never invoked with arguments the policy refuses.
C10_RefusedShellNeverInvoked ==
  \A i \in DOMAIN invoked :
    invoked[i].name = "shell" => ~PolicyRefuses(config, invoked[i].arguments)

\* One batch in which a refused shell call was answered with the policy
\* error and an accepted shell call was invoked.
C10_Witness ==
  /\ \E i \in DOMAIN invoked : invoked[i].name = "shell"
  /\ \E j \in DOMAIN history :
       /\ history[j].role = "Tool"
       /\ history[j].content[1][2] = "explicitly blocked in configuration"
       /\ Invocations(invoked, history[j].tool_call_id[1]) = {}

\* -------------------------------------------------------------------- C11
\* A caller is about to decide on a shell call the policy refuses: in the
\* for loop of chat_internal, or in approve_tool_call.
RefusedCallOf(c) ==
  IF /\ pc[c] = "ci_tool"
     /\ idx[c] <= Len(batch[c])
     /\ batch[c][idx[c]].name = "shell"
     /\ IsSome(from_str(batch[c][idx[c]].arguments))
     /\ PolicyRefuses(config, Unwrap(from_str(batch[c][idx[c]].arguments)))
    THEN Some(batch[c][idx[c]].id)
  ELSE IF /\ pc[c] = "ap_check"
          /\ cur[c][1].tool_name = "shell"
          /\ PolicyRefuses(config, cur[c][1].arguments)
    THEN Some(cur[c][1].id)
  ELSE None

\* C11: whenever the security policy refuses a shell call, in the turn
\* loop or inside approve_tool_call, a Tool message with the call's id and
\* an error naming the command is appended and the operation goes on; it
\* does not return to its caller.
C11_SecurityRefusalAbsorbed ==
  [][\A c \in Callers :
       (IsSome(RefusedCallOf(c)) /\ <<pc[c], idx[c]>> # <<pc'[c], idx'[c]>>)
       => /\ pc'[c] # "idle"
          /\ \E j \in ToolAnswers(history', Unwrap(RefusedCallOf(c))) :
               /\ j = Len(history')
               /\ history'[j].content[1][1] = "error"]_vars

\* -------------------------------------------------------------------- C12
\* The locks caller c holds.
HeldBy(c) == {l \in DOMAIN lock : lock[l] = c}

C13_TerminalResponse ==
  [][\A c \in Callers :
       (pc[c] = "ci_await" /\ pc'[c] = "idle" /\ ret'[c] # <<"Err", "backend">>)
       => /\ ret'[c][1] = "Ok"
          /\ IF ret'[c][2] = ""
               THEN history' = history
               ELSE /\ history' = Append(history, history'[Len(history')])
                    /\ history'[Len(history')].role = "Assistant"
                    /\ history'[Len(history')].content = <<<<"text", ret'[c][2]>>>>]_vars

\* ------------------------------------------------ memory: derived notions
\* The (id, content, summary) records of an index.
Records(d) == {<<x.id, x.content, x.summary>> : x \in d.rows}

\* What search answers on index d, for every query and limit.
AllResults(d) ==
  [q \in Queries, l \in Limits |->
     LET r == search(d, q, l)
     IN  IF r.ok THEN <<"Ok", Pairs(r.rows)>> ELSE <<"Err">>]

\* The kind of the last op of the log that names id, "none" without one.
LastOp(lines, id) ==
  LET at == {i \in DOMAIN lines : lines[i].op \in {"Add", "Forget"} /\ lines[i].id = id}
  IN  IF at = {} THEN "none"
      ELSE lines[CHOOSE i \in at : \A j \in at : j <= i].op

\* The index that replaying the log into an empty index builds.
Rebuilt == Replay(EmptyIndex, LogLines).index

Parseable == \A i \in DOMAIN LogLines : LogLines[i].op # "Malformed"

\* A limit no result list can reach.
NoLimit(d) == Cardinality(d.fts) + 1

\* -------------------------------------------------------------------- C14
\* C14: for every log of Add and Forget ops, replaying it into an empty
\* index and replaying it once more into the index that gave yield the same
\* records and the same answer to every search.
C14_ReplayIdempotence ==
  Parseable
  => LET once == sync_index(EmptyIndex, log_file).index
         twice == sync_index(once, log_file).index
     IN  /\ Records(once) = Records(twice)
         /\ AllResults(once) = AllResults(twice)

\* -------------------------------------------------------------------- C15
\* C15: right after add_memory(c, s) has returned its id, a search for any
\* word of c or s with a large enough limit succeeds and its results hold
\* (c, s); right after forget_memory(id) has returned Ok, no search returns
\* the record with that id.
C15_RoundTrip ==
  /\ (Len(mret) = 3 /\ mret[1] = "Ok" /\ mret[2] = "add")
     => \A x \in {y \in db.rows : y.id = mret[3]} :
          \A w \in Range(Words(x.content)) \cup Range(Words(x.summary)) :
            LET r == search(db, w, NoLimit(db))
            IN  r.ok /\ <<x.content, x.summary>> \in Range(Pairs(r.rows))
  /\ (Len(mret) = 3 /\ mret[1] = "Ok" /\ mret[2] = "forget")
     => \A q \in Queries :
          \A x \in Range(search(db, q, NoLimit(db)).rows) : x.id # mret[3]

\* -------------------------------------------------------------------- C16
\* C16: when compact returns Ok the log file exists, every line of it is a
\* complete Add op, and replaying it into an empty index gives exactly the
\* records the index holds, which compact has not touched; every other
\* step of compact, and a crash before the rename, leave the log as it was.
C16_Compaction ==
  [][/\ (mpc = "compact_rename" /\ mret' = <<"Ok", "compact">>)
        => /\ IsSome(log_file') /\ ~log_partial'
           /\ \A i \in DOMAIN log_file'[1] : log_file'[1][i].op = "Add"
           /\ Records(Replay(EmptyIndex, log_file'[1]).index) = Records(db)
           /\ db' = db
     /\ (\/ mpc = "compact_rename" /\ mret' # <<"Ok", "compact">>
         \/ mpc = "idle" /\ mpc' = "compact_rename"
         \/ mpc = "idle" /\ mret' = <<"Err", "compact">>)
        => log_file' = log_file /\ log_partial' = log_partial]_vars

\* compact has returned Ok after two add_memory calls with one record left
\* in the index, and the log is the one Add op of that record.
C16_Witness ==
  /\ mret = <<"Ok", "compact">>
  /\ nMemIds = 2
  /\ Cardinality(db.rows) = 1
  /\ LogLines = SnapshotOps(db)

\* -------------------------------------------------------------------- C17
\* C17: whenever no store operation is under way, after failed appends,
\* failed index writes and crashes included, every record of the index has
\* an Add op in the log with no later Forget of its id.
C17_IndexNeverAhead ==
  mpc \in {"idle", "closed"}
  => \A x \in db.rows : LastOp(LogLines, x.id) = "Add"

\* -------------------------------------------------------------------- C18
\* C18: when the store is reopened after a crash between the log append and
\* the index write of add_memory or forget_memory, the index it serves is
\* the one that applying the whole log to an empty index gives: the same
\* records, the same answer to every search.
C18_CrashRecovery ==
  [][(/\ mpc = "closed" /\ mpc' = "idle"
      /\ mret \in {<<"Crash", "add_index">>, <<"Crash", "forget_index">>})
     => /\ Records(db') = Records(Rebuilt)
        /\ AllResults(db') = AllResults(Rebuilt)]_vars

\* -------------------------------------------------------------------- C19
\* C19: opening the store on a log with a line that does not parse fails,
\* and the index is left exactly as it was before the replay started.
C19_MalformedLogIsFatal ==
  [][(mpc = "closed" /\ nMemOps' = nMemOps + 1 /\ ~Parseable)
     => /\ mpc' = "closed"
        /\ mret' = <<"Err", "new">>
        /\ db' = db]_vars

\* Opening has failed on a log whose malformed line follows a line that
\* parses, with a record in the index.
C19_Witness ==
  /\ mpc = "closed"
  /\ mret = <<"Err", "new">>
  /\ Len(LogLines) = 2
  /\ LogLines[1].op = "Add"
  /\ LogLines[2].op = "Malformed"
  /\ db.rows # {}

\* -------------------------------------------------------------------- C20
\* C20: a search on the open store returns at most limit results, and none
\* of them is a record whose last op in the log is a Forget.
C20_SearchRespectsLimitAndForget ==
  mpc = "idle"
  => \A q \in Queries, l \in Limits :
       LET r == search(db, q, l)
       IN  /\ Len(r.rows) <= l
           /\ \A x \in Range(r.rows) : LastOp(LogLines, x.id) # "Forget"

\* -------------------------------------------------------------------- C26
\* C26: while a caller waits for chat_completion or for a tool's call() it
\* holds no lock.
C26_NoLockAcrossSuspension ==
  \A c \in Callers :
    pc[c] \in {"ci_await", "ci_toolwait", "ap_toolwait"} => HeldBy(c) = {}

\* -------------------------------------------------------------------- C29
\* C29: every Tool message of the history has content, and a tool_call_id
\* that is the id of a tool call of an Assistant message before it.
C29_ToolMessagesLinked ==
  \A j \in DOMAIN history :
    history[j].role = "Tool"
    => /\ Len(history[j].content) = 1
       /\ Len(history[j].tool_call_id) = 1
       /\ \E i \in 1..(j - 1) : history[j].tool_call_id[1] \in CallIds(history[i])

\* The history holds a tool's result, a policy or lookup error, and the
\* answer to a second call.
C29_Witness ==
  /\ \E j \in DOMAIN history :
       history[j].role = "Tool" /\ history[j].content[1][1] = "result"
  /\ \E j \in DOMAIN history :
       history[j].role = "Tool" /\ history[j].content[1][1] = "error"
  /\ \E j \in DOMAIN history : history[j].tool_call_id = <<2>>

\* -------------------------------------------------------------------- C30
\* C30: every step of every operation leaves the history it found as a
\* prefix of the history it leaves.
C30_HistoryAppendOnly ==
  [][/\ Len(history) <= Len(history')
     /\ SubSeq(history', 1, Len(history)) = history]_vars

\* A second chat() has added its User message behind the first turn's
\* Assistant message and Tool message.
C30_Witness ==
  /\ Len(history) >= 4
  /\ \E i \in DOMAIN history, j \in DOMAIN history, k \in DOMAIN history :
       /\ i < j /\ j < k
       /\ history[i].role = "Assistant"
       /\ history[j].role = "Tool"
       /\ history[k].role = "User"

\* -------------------------------------------------------------------- C28
\* The command of the arguments occurs in no / some entry of a list.
MatchesSome(list, cmd) == \E e \in Range(list) : Contains(cmd, e)

\* C28: check_shell_security rejects a call without a string command; it
\* rejects a command matching a blocked entry, whether or not it matches an
\* allowed one; it rejects a command matching no entry of a non-empty
\* allow-list; and with an empty allow-list it accepts every command that
\* matches no blocked entry.
C28_CheckShellSecurity ==
  IsSome(sec_arguments)
  => LET a == Unwrap(sec_arguments)
         rejected == Unwrap(sec_result) # <<>>
         hasCommand == Len(a) = 2 /\ a[1] = "command"
     IN  /\ ~hasCommand => rejected
         /\ hasCommand
            => /\ MatchesSome(config.blocked_shell_commands, a[2]) => rejected
               /\ (config.allowed_shell_commands # <<>>
                   /\ ~MatchesSome(config.allowed_shell_commands, a[2])) => rejected
               /\ (config.allowed_shell_commands = <<>>
                   /\ ~MatchesSome(config.blocked_shell_commands, a[2])) => ~rejected

\* Under the default policy a command holding both the allowed "ls" and the
\* blocked "rm" has been rejected as blocked.
C28_Witness ==
  /\ config = DefaultToolConfig
  /\ sec_arguments = <<<<"command", "ls; rm x">>>>
  /\ sec_result = <<<<"explicitly blocked in configuration", "ls; rm x">>>>

\* ------------------------------------------------------- task-stack notions
\* The indices of the Pending tasks of a task list.
PendingIn(ts) == {i \in DOMAIN ts : ts[i].status = Pending}

\* The ids of the tasks of a task list.
IdsOf(ts) == {ts[i].id : i \in DOMAIN ts}

\* Loop lp's stack.pop() returns in this step.
PopReturns(lp) == lpc[lp] = "pop" /\ lpc'[lp] # "pop"

\* -------------------------------------------------------------------- C21
\* C21: a pop returns the Pending task that was pushed first (ids are given
\* out in push order), whatever non-Pending tasks lie before it, and removes
\* nothing and returns none when no task is Pending.
C21_PopFirstPending ==
  [][\A lp \in Loops :
       PopReturns(lp)
       => IF PendingIn(tasks) = {}
            THEN ltask'[lp] = None /\ tasks' = tasks /\ ran' = ran
            ELSE \E i \in PendingIn(tasks) :
                   /\ \A j \in PendingIn(tasks) : tasks[i].id <= tasks[j].id
                   /\ ltask'[lp] = Some(tasks[i])
                   /\ ran' = Append(ran, tasks[i].id)]_vars

\* Tasks 2 and 3 have been popped in the order of their pushes while task 1,
\* pushed before them and InProgress, was skipped.
C21_Witness ==
  /\ ran = <<2, 3>>
  /\ tasks = <<Task(1, InProgress)>>

\* -------------------------------------------------------------------- C22
\* C22: a step that is not a clear_completed leaves every task of the stack
\* in the stack.
C22_NeverDeletedExceptCleanup ==
  [][nClears' = nClears => IdsOf(tasks) \subseteq IdsOf(tasks')]_vars

\* -------------------------------------------------------------------- C23
\* C23: clear_completed keeps exactly the tasks that are Pending or
\* InProgress, each as it was, in the order they had, and nothing else.
C23_ClearCompletedRetains ==
  [][nClears' # nClears
     => /\ \A i \in DOMAIN tasks :
             tasks[i].status \in {Pending, InProgress}
             <=> \E j \in DOMAIN tasks' : tasks'[j] = tasks[i]
        /\ \A j \in DOMAIN tasks' : \E i \in DOMAIN tasks : tasks[i] = tasks'[j]
        /\ \A j, k \in DOMAIN tasks' :
             j < k => \E a, b \in DOMAIN tasks :
                        a < b /\ tasks[a] = tasks'[j] /\ tasks[b] = tasks'[k]]_vars

\* Of the three tasks pushed by the chat for task 1, clear_completed has
\* dropped the terminal task 2 and kept the InProgress 3 before the Pending 4.
C23_Witness ==
  /\ nClears = 1
  /\ ran = <<1>>
  /\ nTaskIds = 4
  /\ tasks = <<Task(3, InProgress), Task(4, Pending)>>

\* -------------------------------------------------------------------- C24
\* A sequence holds no element twice.
NoDuplicates(q) == \A i, j \in DOMAIN q : q[i] = q[j] => i = j

\* What a pop of the loop leads to, and when the loop returns Ok.
LoopStep ==
  \A lp \in Loops :
    /\ PopReturns(lp)
       => IF PendingIn(tasks) = {}
            THEN lpc'[lp] = "done" /\ lret'[lp] = <<"Ok">>
            ELSE lpc'[lp] = "chat" /\ Len(ran') = Len(ran) + 1
    /\ (lret'[lp] = <<"Ok">> /\ lret[lp] # <<"Ok">>)
       => PopReturns(lp) /\ PendingIn(tasks) = {}
    /\ (lpc[lp] # "pop" /\ lpc'[lp] = "pop") => ~paused

\* No chat() of a loop has returned an error.
NoChatError == \A lp \in Loops : lret[lp] # <<"Err">>

\* Every loop that was started has returned Ok, its last task done with.
Terminates ==
  \A lp \in Loops :
    (lpc[lp] # "off") ~> (lpc[lp] = "done" /\ lret[lp] = <<"Ok">> /\ ltask[lp] = None)

\* C24 as stated: the loop pops only after reading the flag clear, runs one
\* chat() per popped task and no task twice, returns Ok exactly on a pop that
\* finds no Pending task; and if the flag is clear again and again and no
\* chat() fails, every started loop returns.
C24_AsStated ==
  /\ [][LoopStep]_vars
  /\ [](NoDuplicates(ran))
  /\ (([]<>(~paused)) /\ []NoChatError) => Terminates

\* C24, with the flag staying clear from some moment on: then every started
\* loop returns Ok, each popped task run exactly once.
C24_LoopTerminates ==
  /\ [][LoopStep]_vars
  /\ [](NoDuplicates(ran))
  /\ ((<>[](~paused)) /\ []NoChatError) => Terminates

\* A loop has returned Ok after three tasks were run and none is left.
C24_Witness ==
  \E lp \in Loops :
    /\ lpc[lp] = "done"
    /\ lret[lp] = <<"Ok">>
    /\ Len(ran) >= 3
    /\ tasks = <<>>

\* -------------------------------------------------------------------- C25
\* C25: an iteration that reads the flag set goes to sleep and from there
\* only back to reading the flag; a pop follows only a read of the flag
\* clear, and a chat() only a pop; a chat() in flight ends only by returning,
\* to the next read of the flag or, failed, out of the loop; and a step that
\* changes the flag changes nothing of any loop.
C25_PausePolledBetweenTasks ==
  [][/\ \A lp \in Loops :
          /\ (lpc[lp] = "poll" /\ paused) => lpc'[lp] \in {"poll", "sleep"}
          /\ lpc[lp] = "sleep"
             => lpc'[lp] \in {"sleep", "poll"} /\ ltask'[lp] = ltask[lp]
          /\ (lpc[lp] # "pop" /\ lpc'[lp] = "pop") => (lpc[lp] = "poll" /\ ~paused)
          /\ (lpc[lp] # "chat" /\ lpc'[lp] = "chat") => lpc[lp] = "pop"
          /\ lpc[lp] = "chat"
             => \/ lpc'[lp] = "chat" /\ ltask'[lp] = ltask[lp]
                \/ lpc'[lp] = "poll"
                \/ lpc'[lp] = "done" /\ lret'[lp] = <<"Err">>
     /\ paused' # paused => (lpc' = lpc /\ ltask' = ltask /\ lret' = lret /\ ran' = ran)]_vars

\* With the flag set, a chat() has run to its end and the loop, back at the
\* top, has read the flag and sleeps.
C25_Witness ==
  \E lp \in Loops :
    /\ paused
    /\ lpc[lp] = "sleep"
    /\ Len(ran) >= 1
    /\ ltask[lp] = None

\* -------------------------------------------------------------------- C27
\* The mutexes task p holds.
Holds(p) == {k \in Locks : mutex[k] = p}

\* Task p waits in lock().await for a mutex that is not free.
Blocked(p) == \E a \in Acquisitions : site[p] = a[1] /\ mutex[a[2]] # 0

\* An order of the mutexes.
Rank ==
  [k \in Locks |->
     CASE k \in {"config", "memory"} -> 1
       [] k \in {"state", "provider", "pending_tool_call"} -> 2
       [] k = "tools" -> 3
       [] k = "task_stack" -> 4
       [] k = "paused" -> 5]

\* C27: whenever some task is in an operation, one of them is not blocked
\* on a mutex; and a task waits for a mutex only while holding mutexes that
\* come before it in one order, so no cycle of waiting can form.
C27_DeadlockFreedom ==
  /\ (\E p \in Procs : site[p] # "idle")
     => \E p \in Procs : site[p] # "idle" /\ ~Blocked(p)
  /\ \A p \in Procs : \A a \in Acquisitions :
       site[p] = a[1] => \A k \in Holds(p) : Rank[k] < Rank[a[2]]

\* The longest chain of waiting: a chat holding config and tools waits in
\* push_task for the task stack, held by the TUI's frame, which waits for
\* paused, held by an autonomous loop.
C27_Witness ==
  \E p, q, r \in Procs :
    /\ site[p] = "ci:task_stack" /\ Holds(p) = {"config", "tools"}
    /\ site[q] = "tui:paused" /\ Holds(q) = {"task_stack"}
    /\ site[r] = "al:read" /\ Holds(r) = {"paused"}

\* -------------------------------------------------------------------- C31
\* C31: no request sent to the backend holds an Assistant message that has
\* neither content nor a non-empty list of tool calls.
C31_NoEmptyAssistantInRequest ==
  IsSome(lastRequest)
  => \A j \in DOMAIN Unwrap(lastRequest) :
       LET m == Unwrap(lastRequest)[j]
       IN  m.role = "Assistant" => (IsSome(m.content) \/ HasToolCalls(m))

\* -------------------------------------------------------------------- C32
\* The Tool message that reports a missing tool.
IsNotFound(m, id, name) ==
  /\ m.role = "Tool"
  /\ m.tool_call_id = <<id>>
  /\ m.content = <<<<"error", "Tool not found", name>>>>
  /\ m.tool_calls = None

C35_MemoryCommit ==
  \A c \in Callers :
    (ret[c] # None /\ ret[c][1] = "Ok" /\ ret[c][2] # "WAITING_FOR_APPROVAL")
    => nMemIds > 0

\* -------------------------------------------------------------------- C38
\* C38: approve_tool_call and reject_tool_call start nothing when no call
\* is pending; the step that returns their error leaves the history, the
\* pending slot and the task stack as they were and calls neither the
\* backend nor a tool.
C38_NoPendingIsAnError ==
  [][\A c \in Callers :
       /\ (pc[c] = "idle" /\ IsNone(pending_tool_call)) => op'[c] \notin {"approve", "reject"}
       /\ (/\ ret'[c] \in {<<"Err", "No pending tool call to approve">>,
                           <<"Err", "No pending tool call to reject">>}
           /\ ret'[c] # ret[c])
          => /\ IsNone(pending_tool_call) /\ IsNone(pending_tool_call')
             /\ history' = history
             /\ tasks' = tasks
             /\ nBackend' = nBackend /\ lastRequest' = lastRequest
             /\ invoked' = invoked
             /\ pc[c] = "idle" /\ pc'[c] = "idle"]_vars

\* The user's reject found nothing pending after a turn had put messages in
\* the history.
C38_Witness ==
  /\ ret["user"] = <<"Err", "No pending tool call to reject">>
  /\ Len(history) >= 2
  /\ IsNone(pending_tool_call)

\* -------------------------------------------------------------------- C33
\* C33: a caller that has gone through its batch takes the history again
\* and sends it; a chat() returns a text only on a backend response without
\* tool calls, having sent one request more than it went through batches.
C33_LoopsUntilNoToolCalls ==
  [][\A c \in Callers :
       /\ (pc[c] = "ci_tool" /\ idx[c] > Len(batch[c]) /\ pc'[c] # pc[c])
          => pc'[c] = "ci_snapshot"
       /\ (pc[c] = "ci_snapshot" /\ pc'[c] # pc[c])
          => pc'[c] = "ci_send" /\ req'[c] = history
       /\ (pc[c] = "ci_send" /\ pc'[c] # pc[c])
          => pc'[c] = "ci_await" /\ lastRequest' = <<req[c]>>
       /\ (pc[c] # "idle" /\ pc'[c] = "idle" /\ ret'[c] # None /\ ret'[c][1] = "Ok")
          => /\ pc[c] = "ci_await"
             /\ Len(history') = Len(history) + 1
             /\ history'[Len(history')].role = "Assistant"
             /\ ~HasToolCalls(history'[Len(history')])
             /\ sent[c] = batches[c] + 1]_vars

\* A chat() has returned its text after one batch and two requests.
C33_Witness ==
  \E c \in Callers :
    /\ ret[c] = <<"Ok", "done">>
    /\ sent[c] = 2
    /\ batches[c] = 1

\* -------------------------------------------------------------------- C39
\* The Tool messages of the history that answer call id, and the calls of
\* tools made for it.
AnswersTo(id) ==
  {j \in DOMAIN history : history[j].role = "Tool" /\ history[j].tool_call_id = <<id>>}

CallsFor(id) == {j \in DOMAIN invoked : invoked[j].id = id}

\* The callers that hold a pending call they took.
Takers(p) == {c \in Callers : cur[c] = <<p>> /\ op[c] \in {"approve", "reject"}}

\* C39: no call id is answered by more than one Tool message or executed
\* more than once, and no two callers hold the same taken call; the step
\* that empties the pending slot hands the call to exactly one caller; and a
\* caller that finds the slot empty starts neither an approve nor a reject.
C39_ResolvedAtMostOnce ==
  /\ [](\A id \in 1..MaxIds :
          /\ Cardinality(AnswersTo(id)) <= 1
          /\ Cardinality(CallsFor(id)) <= 1
          /\ \A c1, c2 \in Callers :
               (IsSome(cur[c1]) /\ cur[c1] = cur[c2]) => c1 = c2)
  /\ [][/\ (IsSome(pending_tool_call) /\ IsNone(pending_tool_call'))
           => \E c \in Callers :
                /\ op[c] = "none" /\ op'[c] \in {"approve", "reject"}
                /\ cur'[c] = pending_tool_call
                /\ \A d \in Callers \ {c} : op'[d] = op[d] /\ cur'[d] = cur[d]
        /\ \A c \in Callers :
             (pc[c] = "idle" /\ IsNone(pending_tool_call))
             => op'[c] \notin {"approve", "reject"}]_vars

\* One caller's approve has taken the call and waits for the tool while the
\* other's reject, made after the one chat() of the run, found nothing.
C39_Witness ==
  \E c1, c2 \in Callers :
    /\ c1 # c2
    /\ nChats = 1
    /\ pc[c1] = "ap_toolwait"
    /\ IsNone(pending_tool_call)
    /\ ret[c2] = <<"Err", "No pending tool call to reject">>
    /\ Len(history) = 2

\* -------------------------------------------------------------------- C40
\* C40: with several loops on one stack, no task id is handed to chat()
\* twice, no two loops hold the same task, a task a loop holds is no longer
\* in the stack, and the pop that returns a task returns one no loop has
\* held before.
C40_PoppedByOneLoop ==
  /\ [](/\ NoDuplicates(ran)
        /\ \A l1, l2 \in Pool :
             (IsSome(ltask[l1]) /\ IsSome(ltask[l2])
                /\ Unwrap(ltask[l1]).id = Unwrap(ltask[l2]).id) => l1 = l2
        /\ \A lp \in Pool :
             IsSome(ltask[lp]) => Unwrap(ltask[lp]).id \notin IdsOf(tasks))
  /\ [][\A lp \in Pool :
          (lpc[lp] = "pop" /\ lpc'[lp] = "chat")
          => /\ Unwrap(ltask'[lp]).id \notin Range(ran)
             /\ \A l2 \in Pool \ {lp} : ltask'[l2] = ltask[l2]]_vars

\* Two loops are each inside chat() with a task of their own.
C40_Witness ==
  \E l1, l2 \in Pool :
    /\ l1 # l2
    /\ lpc[l1] = "chat" /\ lpc[l2] = "chat"
    /\ IsSome(ltask[l1]) /\ IsSome(ltask[l2])
    /\ Unwrap(ltask[l1]).id # Unwrap(ltask[l2]).id
    /\ Len(ran) = 2

\* -------------------------------------------------------------------- C34
\* What an operation that sets the status of task tid to st makes of ts: the
\* same tasks in the same order, that one with the new status.
StatusSet(ts, tid, st) ==
  [i \in DOMAIN ts |-> IF ts[i].id = tid THEN Task(tid, st) ELSE ts[i]]

\* C34: on every stack the program reaches, cancel_task(id) gives the task
\* with that id the status Failed("cancelled") and update_status(id, s) the
\* status s, every other task, the order and the count staying as they were,
\* and both return the stack as it was when no task has the id.
C34_StatusFrame ==
  \A tid \in 1..MaxTasks :
    /\ cancel_task(tasks, tid) = StatusSet(tasks, tid, Failed("cancelled"))
    /\ tid \notin IdsOf(tasks) => cancel_task(tasks, tid) = tasks
    /\ \A st \in TaskStatus :
         /\ update_status(tasks, tid, st) = StatusSet(tasks, tid, st)
         /\ tid \notin IdsOf(tasks) => update_status(tasks, tid, st) = tasks

\* -------------------------------------------------------------------- C36
\* The log ends with the op of the operation that has just returned mret.
LogKeeps(o) == Len(LogLines) > 0 /\ LogLines[Len(LogLines)] = o

\* The op whose index write has just failed: the operation returned an error
\* and the log ends with its op.
IndexWriteFailed(o) ==
  /\ mpc = "idle"
  /\ Len(mret) = 3 /\ mret[1] = "Err"
  /\ o.op \in {"Add", "Forget"}
  /\ o.id = mret[3]
  /\ o.op = (IF mret[2] = "add" THEN "Add" ELSE "Forget")
  /\ LogKeeps(o)

\* A failed log append returns the error and leaves the log and the index as
\* they were.
AppendFailureFrame ==
  (/\ mpc = "idle" /\ nMemOps' = nMemOps + 1
   /\ Len(mret') = 3 /\ mret'[1] = "Err")
  => log_file' = log_file /\ db' = db

\* A failed index write returns the error, leaves the index as it was and
\* the op as the last line of the log.
IndexFailureFrame ==
  (mpc \in {"add_index", "forget_index"} /\ mret'[1] = "Err")
  => /\ db' = db
     /\ log_file' = log_file
     /\ LogKeeps(Unwrap(mcur))

\* The index the next reopen builds from the files as they are is the one
\* the whole log stands for: the same records, the same answer to every
\* search.
ReopenReflects ==
  \A o \in Range(LogLines) :
    (IndexWriteFailed(o) /\ Parseable)
    => LET r == sync_index(db, log_file)
       IN  /\ r.ok
           /\ Records(r.index) = Records(Rebuilt)
           /\ AllResults(r.index) = AllResults(Rebuilt)

\* C36: a failed log append of add_memory or forget_memory returns an error
\* with the index unchanged; a failed index write after the append returns
\* an error with the op in the log, and the next reopen's replay makes the
\* index reflect the log, that op included.
C36_IOErrorLeavesStoreConsistent ==
  /\ [][AppendFailureFrame /\ IndexFailureFrame]_vars
  /\ []ReopenReflects

\* -------------------------------------------------------------------- C37
\* The Add ops of the log that no later Forget of their id follows.
LiveAdds(lines) ==
  {lines[i] : i \in {j \in DOMAIN lines :
                       lines[j].op = "Add" /\ LastOp(lines, lines[j].id) = "Add"}}

\* C37: when compact returns Ok, every record whose Add is in the old log
\* with no later Forget of its id has its Add in the new log.
C37_CompactKeepsLiveRecords ==
  [][(mpc = "compact_rename" /\ mret' = <<"Ok", "compact">>)
     => LiveAdds(LogLines) \subseteq Range(log_file'[1])]_vars

====
